---- MODULE Spec2Model ----
(***************************************************************************)
(* Template interpolation transform of vetur                               *)
(* (server/src/services/typescriptService/transformTemplate.ts) and the    *)
(* diagnostic mapper (VueInterpolationMode.doValidation).                   *)
(*                                                                         *)
(* The transform is a pure function of a template AST and the template     *)
(* text.  A state of the model is one call of one of the functions of the  *)
(* program: the function called (fn), its arguments (arg, scope, code),    *)
(* whether it has returned (pc) and what it returned (result).             *)
(*                                                                         *)
(* TypeScript nodes are records                                            *)
(*   [kind, text, kids, pos, end, smr]                                     *)
(* kind is the SyntaxKind, text the identifier / literal / operator text,  *)
(* kids the child nodes in source order, pos/end the node's text range     *)
(* (-1,-1 for a node made by a ts.create* factory), smr the source-map     *)
(* range set by ts.setSourceMapRange (<<>> when none was set).             *)
(*                                                                         *)
(* Template text is kept in the form the TypeScript parser reads it: a     *)
(* piece of text is the syntax tree it spells (no whitespace), and         *)
(* createSourceFile computes every node's pos/end by counting characters.  *)
(***************************************************************************)
EXTENDS Integers, Sequences, FiniteSets, TLC

VARIABLES pc, fn, arg, scope, code, result

vars == <<pc, fn, arg, scope, code, result>>

----------------------------------------------------------------------------
(* Constants of the program *)

renderHelperName == "__vlsRenderHelper"
componentHelperName == "__vlsComponentHelper"
iterationHelperName == "__vlsIterationHelper"
listenerHelperName == "__vlsListenerHelper"

globalScope ==
  << "Infinity", "undefined", "NaN", "isFinite", "isNaN",
     "parseFloat", "parseInt", "decodeURI", "decodeURIComponent", "encodeURI",
     "encodeURIComponent",
     "Math", "Number", "Date", "Array", "Object", "Boolean", "String", "RegExp",
     "Map", "Set", "JSON", "Intl",
     "require" >>

vOnScope == << "$event", "arguments" >>

null == [kind |-> "null"]

----------------------------------------------------------------------------
(* Arrays *)

Range(s) == {s[i] : i \in 1..Len(s)}

\* Array.prototype.indexOf, zero-based, -1 when absent
indexOf(s, x) ==
  IF x \in Range(s)
  THEN (CHOOSE i \in 1..Len(s) : s[i] = x /\ \A j \in 1..(i - 1) : s[j] # x) - 1
  ELSE -1

RECURSIVE Flatten(_)
Flatten(ss) == IF ss = <<>> THEN <<>> ELSE Head(ss) \o Flatten(Tail(ss))

----------------------------------------------------------------------------
(* TypeScript nodes and the ts.create* factories *)

\* pos is the full start of the node: the text from pos has lead characters
\* of trivia before the first token of the node
Node(kind, text, kids, pos, end) ==
  [kind |-> kind, text |-> text, kids |-> kids, pos |-> pos, end |-> end,
   lead |-> 0, smr |-> <<>>]

\* a synthesized node: the factories leave pos = end = -1
Syn(kind, text, kids) == Node(kind, text, kids, -1, -1)

createIdentifier(name) == Syn("Identifier", name, <<>>)
createParen(e) == Syn("ParenthesizedExpression", "", <<e>>)

\* ts.setTextRange(node, {pos, end})
setTextRange(node, pos, end) == [node EXCEPT !.pos = pos, !.end = end]

\* F(e), e taken as a value: a call evaluates its argument once
Apply(e, F(_)) == CHOOSE r \in {F(x) : x \in {e}} : TRUE

\* The factories put an operand in parentheses where the printed text would
\* otherwise read differently (factory.ts of the TypeScript library).
\* isCommaSequence: a comma expression
isCommaSequence(e) == e.kind = "BinaryExpression" /\ e.text = ","

\* parenthesizeExpressionForList: an element of a list, an initializer or a
\* spread operand of the precedence of the comma
parenthesizeExpressionForList(e) ==
  Apply(e, LAMBDA x : IF isCommaSequence(x)
                      THEN setTextRange(createParen(x), x.pos, x.end)
                      ELSE x)

isLeftHandSideExpression(e) ==
  e.kind \in {"Identifier", "ThisKeyword", "TrueKeyword", "NumericLiteral",
              "StringLiteral", "PropertyAccessExpression", "ElementAccessExpression",
              "CallExpression", "NewExpression", "ParenthesizedExpression",
              "ObjectLiteralExpression", "ArrayLiteralExpression",
              "FunctionExpression", "TemplateExpression"}

\* parenthesizeForAccess: the expression of an access or of a call
parenthesizeForAccess(e) ==
  Apply(e, LAMBDA x : IF isLeftHandSideExpression(x)
                      THEN x
                      ELSE setTextRange(createParen(x), x.pos, x.end))

\* getLeftmostExpression(node, /*stopAtCallExpressions*/ false)
RECURSIVE getLeftmostExpression(_)
getLeftmostExpression(node) ==
  IF node.kind \in {"PostfixUnaryExpression", "BinaryExpression",
                    "ConditionalExpression", "CallExpression",
                    "ElementAccessExpression", "PropertyAccessExpression"}
  THEN getLeftmostExpression(node.kids[1])
  ELSE node

\* parenthesizePrefixOperand: an operand that is no unary expression
parenthesizePrefixOperand(e) ==
  Apply(e, LAMBDA x :
    IF \/ isLeftHandSideExpression(x)
       \/ x.kind \in {"PrefixUnaryExpression", "PostfixUnaryExpression",
                      "DeleteExpression", "TypeOfExpression", "VoidExpression"}
    THEN x
    ELSE setTextRange(createParen(x), x.pos, x.end))

\* parenthesizeExpressionForExpressionStatement: a statement may not start
\* with an object literal or a function expression, nor call a function
\* expression or an arrow function that is not in parentheses
parenthesizeExpressionForExpressionStatement(e) ==
  Apply(e, LAMBDA x :
    IF x.kind = "CallExpression" /\ x.kids[1].kind \in {"FunctionExpression", "ArrowFunction"}
    THEN [x EXCEPT !.kids[1] = setTextRange(createParen(x.kids[1]),
                                            x.kids[1].pos, x.kids[1].end)]
    ELSE IF getLeftmostExpression(x).kind \in {"ObjectLiteralExpression",
                                               "FunctionExpression"}
    THEN setTextRange(createParen(x), x.pos, x.end)
    ELSE x)

createThis == Syn("ThisKeyword", "this", <<>>)
createStringLiteral(s) == Syn("StringLiteral", s, <<>>)
createTrue == Syn("TrueKeyword", "true", <<>>)
createPropertyAccess(e, name) ==
  Syn("PropertyAccessExpression", "", <<parenthesizeForAccess(e), name>>)
createElementAccess(e, index) ==
  Syn("ElementAccessExpression", "", <<parenthesizeForAccess(e), index>>)
createPrefix(op, operand) ==
  Syn("PrefixUnaryExpression", op, <<parenthesizePrefixOperand(operand)>>)
createPostfix(operand, op) ==
  \* parenthesizePostfixOperand: as parenthesizeForAccess
  Syn("PostfixUnaryExpression", op, <<parenthesizeForAccess(operand)>>)
createTypeOf(e) == Syn("TypeOfExpression", "", <<parenthesizePrefixOperand(e)>>)
createDelete(e) == Syn("DeleteExpression", "", <<parenthesizePrefixOperand(e)>>)
createVoid(e) == Syn("VoidExpression", "", <<parenthesizePrefixOperand(e)>>)
\* (parenthesizeBinaryOperand compares the precedence of an operand with the
\* operator's; the operands injectThis passes keep the precedence the
\* parser found, or are accesses on this, and stay as they are)
createBinary(l, op, r) == Syn("BinaryExpression", op, <<l, r>>)
createConditional(c, t, f) ==
  \* parenthesizeForConditionalHead: a condition that binds less than ?: ;
  \* parenthesizeSubexpressionOfConditionalExpression: a comma expression
  Apply(<<c, t, f>>, LAMBDA x :
    Syn("ConditionalExpression", "",
        <<IF \/ x[1].kind = "BinaryExpression" /\ x[1].text \in {",", "="}
             \/ x[1].kind = "SpreadElement"
          THEN createParen(x[1]) ELSE x[1],
          IF isCommaSequence(x[2]) THEN createParen(x[2]) ELSE x[2],
          IF isCommaSequence(x[3]) THEN createParen(x[3]) ELSE x[3]>>))
createCall(callee, args) ==
  \* parenthesizeForAccess, parenthesizeListElements
  Syn("CallExpression", "",
      <<parenthesizeForAccess(callee)>>
      \o Apply(args, LAMBDA xs :
                  [i \in 1..Len(xs) |-> parenthesizeExpressionForList(xs[i])]))
createObjectLiteral(props) == Syn("ObjectLiteralExpression", "", props)
createArrayLiteral(elems) ==
  \* parenthesizeListElements
  Syn("ArrayLiteralExpression", "",
      Apply(elems, LAMBDA xs :
              [i \in 1..Len(xs) |-> parenthesizeExpressionForList(xs[i])]))
createSpread(e) == Syn("SpreadElement", "", <<parenthesizeExpressionForList(e)>>)
createPropertyAssignment(name, init) ==
  Syn("PropertyAssignment", "", <<name, parenthesizeExpressionForList(init)>>)
createSpreadAssignment(e) ==
  Syn("SpreadAssignment", "", <<parenthesizeExpressionForList(e)>>)
createComputedPropertyName(e) ==
  Apply(e, LAMBDA x :
    Syn("ComputedPropertyName", "", <<IF isCommaSequence(x) THEN createParen(x) ELSE x>>))
\* parameters is the NodeArray of the declarations, kept as a Parameters node
createArrowFunction(parameters, body) ==
  \* parenthesizeConciseBody: a concise body that is a comma expression or
  \* starts with an object literal
  Apply(body, LAMBDA x :
    Syn("ArrowFunction", "=>",
        <<parameters,
          IF /\ x.kind # "Block"
             /\ \/ isCommaSequence(x)
                \/ getLeftmostExpression(x).kind = "ObjectLiteralExpression"
          THEN setTextRange(createParen(x), x.pos, x.end)
          ELSE x>>))
createFunctionExpression(parameters, body) ==
  Syn("FunctionExpression", "", <<parameters, body>>)
\* ts.createParameter(_, _, _, name, _, type): the type reference is kept in text
createParameter(name, type) ==
  Syn("Parameter", type, <<createIdentifier(name)>>)
createNodeArray(nodes) == Syn("Parameters", "", nodes)
createBlock(statements) == Syn("Block", "", statements)
createStatement(e) ==
  Syn("ExpressionStatement", "", <<parenthesizeExpressionForExpressionStatement(e)>>)
createTemplateSpan(e, literal) == Syn("TemplateSpan", "", <<e, literal>>)
createTemplateExpression(head, spans) == Syn("TemplateExpression", "", <<head>> \o spans)

\* ts.setSourceMapRange(node, {pos, end})
setSourceMapRange(node, pos, end) == [node EXCEPT !.smr = <<pos, end>>]

----------------------------------------------------------------------------
(* Text and the TypeScript parser (ts.createSourceFile) *)

\* a piece of text, spelled as the tree it parses to, not yet positioned
Txt(kind, text, kids) == Node(kind, text, kids, 0, 0)

\* characters of a node that has no children
LeafWidth(t) ==
  CASE t.kind \in {"Identifier", "NumericLiteral", "ThisKeyword", "TrueKeyword"} -> Len(t.text)
    [] t.kind = "StringLiteral" -> Len(t.text) + 2
    [] t.kind = "TemplateHead" -> Len(t.text) + 3
    [] t.kind = "TemplateMiddle" -> Len(t.text) + 3
    [] t.kind = "TemplateTail" -> Len(t.text) + 2
    [] t.kind = "OmittedExpression" -> 0
    [] OTHER -> 2     \* {} [] ()

\* characters of trivia before the i-th child: the space after the keyword
\* typeof, delete, void, new, and the space after the arrow of " => "
Lead(t, i) ==
  CASE t.kind \in {"TypeOfExpression", "DeleteExpression", "VoidExpression",
                   "NewExpression"} /\ i = 1 -> 1
    [] t.kind = "ArrowFunction" /\ t.text = " => " /\ i = 2 -> 1
    [] OTHER -> 0

\* characters of the tokens before the first child
Pre(t) ==
  CASE t.kind = "PrefixUnaryExpression" -> Len(t.text)
    [] t.kind \in {"TypeOfExpression", "DeleteExpression"} -> 6
    [] t.kind = "VoidExpression" -> 4
    [] t.kind = "NewExpression" -> 3
    [] t.kind \in {"ParenthesizedExpression", "ObjectLiteralExpression",
                   "ArrayLiteralExpression", "ComputedPropertyName",
                   "ObjectBindingPattern", "ArrayBindingPattern", "Block"} -> 1
    [] t.kind \in {"SpreadElement", "SpreadAssignment"} -> 3
    [] t.kind \in {"Parameter", "BindingElement"} /\ t.text = "rest" -> 3
    [] OTHER -> 0

\* characters between two children, up to the full start of the latter
Sep(t) ==
  CASE t.kind = "BinaryExpression" -> Len(t.text)
    [] t.kind = "ArrowFunction" -> Len(t.text) - Lead(t, 2)
    [] t.kind \in {"TemplateExpression", "TemplateSpan", "ExpressionStatement",
                   "MethodDeclaration"} -> 0
    [] OTHER -> 1

\* characters after the last child
Suf(t) ==
  CASE t.kind = "PostfixUnaryExpression" -> Len(t.text)
    [] t.kind \in {"CallExpression", "NewExpression"} -> IF Len(t.kids) = 1 THEN 2 ELSE 1
    [] t.kind \in {"ElementAccessExpression", "ParenthesizedExpression",
                   "ObjectLiteralExpression", "ArrayLiteralExpression",
                   "ComputedPropertyName", "ObjectBindingPattern",
                   "ArrayBindingPattern", "Block"} -> 1
    [] OTHER -> 0

RECURSIVE LayoutFrom(_, _, _), LayoutKids(_, _, _, _)
\* (the parenthesis that closes a list of parameters comes after the list:
\* the list spans the parameters, not the parentheses around them)
\* the node of text t when t has its full start at offset at, with lead
\* characters of trivia before it.  A node that begins with its first child
\* has the full start of the child, trivia included.
LayoutFrom(t, at, lead) ==
  IF t.kind = "Parameters"
  \* the list starts after the opening parenthesis and ends with its last
  \* parameter
  THEN Apply(LayoutKids(t, 1, at + lead + 1, 0), LAMBDA kids :
         [t EXCEPT !.kids = kids, !.pos = at + lead + 1, !.lead = 0,
                   !.end = IF kids = <<>> THEN at + lead + 1 ELSE kids[Len(kids)].end])
  ELSE IF t.kids = <<>>
  THEN [t EXCEPT !.pos = at, !.lead = lead, !.end = at + lead + LeafWidth(t)]
  ELSE Apply(IF Pre(t) = 0
             THEN LayoutKids(t, 1, at, lead)
             ELSE LayoutKids(t, 1, at + lead + Pre(t), Lead(t, 1)),
             LAMBDA kids :
               [t EXCEPT !.kids = kids, !.pos = at, !.lead = lead,
                         !.end = kids[Len(kids)].end
                                 + (IF kids[Len(kids)].kind = "Parameters" THEN 1 ELSE 0)
                                 + Suf(t)])
\* the children of t from the i-th on, the i-th at offset at
LayoutKids(t, i, at, lead) ==
  IF i > Len(t.kids) THEN <<>>
  ELSE Apply(LayoutFrom(t.kids[i], at, lead), LAMBDA h :
         <<h>> \o LayoutKids(t, i + 1,
                             h.end + (IF h.kind = "Parameters" THEN 1 ELSE 0) + Sep(t),
                             Lead(t, i + 1)))

\* the node of text t when t starts at offset at
Layout(t, at) == LayoutFrom(t, at, 0)

\* number of characters of a text
Width(t) == Layout(t, 0).end

\* "(" + exp + ")"
WrapParen(exp) == Txt("ParenthesizedExpression", "", <<exp>>)
\* "(" + paramsStr + ") => {}"
\* (the text of a parameter list is a ParameterList of its patterns)
WrapArrow(paramsStr) ==
  Txt("ArrowFunction", " => ",
      <<Txt("Parameters", "",
            IF paramsStr.kind = "ParameterList" THEN paramsStr.kids ELSE <<paramsStr>>),
        Txt("Block", "", <<>>)>>)

\* ts.createSourceFile('/tmp/parsed.ts', text, Latest, true).statements:
\* the text is an expression in parentheses, which the parser gives as one
\* expression statement
createSourceFile(text) ==
  <<Node("ExpressionStatement", "", <<Layout(text, 0)>>, 0, Width(text))>>

----------------------------------------------------------------------------
(* Exceptions: nothing in the program catches, so a call that throws makes  *)
(* every enclosing call throw.  A throwing call yields an exception node;   *)
(* a result that holds one anywhere stands for the exception propagating.   *)

\* reading a property of undefined
TypeError == Syn("#TypeError", "TypeError", <<>>)
\* a failed Debug.assert of the TypeScript library
DebugFailure ==
  Syn("#Error",
      "Debug Failure. False expression: Node must have a real position for this operation",
      <<>>)

RECURSIVE Throws(_)
Throws(n) == n.kind \in {"#TypeError", "#Error"} \/ \E i \in 1..Len(n.kids) : Throws(n.kids[i])

\* the exception a throwing result holds
RECURSIVE thrownIn(_)
thrownIn(n) ==
  IF n.kind \in {"#TypeError", "#Error"} THEN n
  ELSE thrownIn(n.kids[CHOOSE i \in 1..Len(n.kids) :
                         Throws(n.kids[i]) /\ \A j \in 1..(i - 1) : ~Throws(n.kids[j])])

\* what a call gives: the value it returns or the exception it throws
Returned(v) == [threw |-> FALSE, value |-> v]
Thrown(e) == [threw |-> TRUE, value |-> e]

\* TokenObject and IdentifierObject: the nodes of the kinds below FirstNode
isToken(node) ==
  node.kind \in {"Identifier", "NumericLiteral", "StringLiteral", "ThisKeyword",
                 "TrueKeyword", "TemplateHead", "TemplateMiddle", "TemplateTail"}

\* node.getStart(): the start of the node's first token, after the trivia
\* at pos.  A node that is not a token asserts that its position is real
\* (NodeObject.assertHasRealPosition); a token returns a synthesized
\* position as it is (skipTrivia).
getStart(node) ==
  IF ~isToken(node) /\ (node.pos < 0 \/ node.end < 0) THEN Thrown(DebugFailure)
  ELSE Returned(IF node.pos < 0 THEN node.pos ELSE node.pos + node.lead)
\* node.getEnd()
getEnd(node) ==
  IF ~isToken(node) /\ (node.pos < 0 \/ node.end < 0) THEN Thrown(DebugFailure)
  ELSE Returned(node.end)

----------------------------------------------------------------------------
(* injectThis *)

Map1(s, F(_)) == IF s = <<>> THEN <<>> ELSE [i \in 1..Len(s) |-> F(s[i])]

hasValidPos(node) == node.pos # -1 /\ node.end # -1

\* bindingName that takes the property name of an element b: c
bindingNameOfProperty(param) == param.kids[1]

\* param.name of a ParameterDeclaration / BindingElement
\* (text tells which children are present: a property name precedes the name)
bindingName(param) ==
  IF param.text \in {"prop", "prop-init"} THEN param.kids[2] ELSE param.kids[1]

RECURSIVE collectScope(_)
collectScope(param) ==
  LET binding == bindingName(param)
  IN CASE binding.kind = "Identifier" -> <<binding.text>>
       [] binding.kind = "ObjectBindingPattern" ->
            Flatten(Map1(binding.kids, collectScope))
       [] binding.kind = "ArrayBindingPattern" ->
            LET filtered == SelectSeq(binding.kids, LAMBDA e : e.kind = "BindingElement")
            IN Flatten(Map1(filtered, collectScope))
       [] OTHER -> <<>>

\* the kinds injectThis has a branch for (an arrow function only with a
\* concise body, an identifier in either case)
isRewritten(exp) ==
  \/ exp.kind \in {"Identifier", "PropertyAccessExpression", "ElementAccessExpression",
                   "PrefixUnaryExpression", "PostfixUnaryExpression", "TypeOfExpression",
                   "DeleteExpression", "VoidExpression", "BinaryExpression",
                   "ConditionalExpression", "CallExpression", "ParenthesizedExpression",
                   "ObjectLiteralExpression", "ArrayLiteralExpression", "SpreadElement",
                   "TemplateExpression"}
  \/ exp.kind = "ArrowFunction" /\ exp.kids[2].kind # "Block"

\* the node exp itself once injectThis(exp, ..) has returned: the last
\* branch resets the position of the node it was given
afterInjectThis(exp) ==
  IF ~isRewritten(exp) /\ hasValidPos(exp) THEN setTextRange(exp, -1, -1) ELSE exp

RECURSIVE injectThis(_, _, _), injectThisForObjectLiteralElement(_, _, _)
injectThis(exp, sc, start) ==
  CASE exp.kind = "Identifier" ->
         IF indexOf(sc, exp.text) < 0
         THEN createPropertyAccess(createThis, exp)
         ELSE exp
    [] exp.kind = "PropertyAccessExpression" ->
         createPropertyAccess(injectThis(exp.kids[1], sc, start), exp.kids[2])
    [] exp.kind = "ElementAccessExpression" ->
         createElementAccess(injectThis(exp.kids[1], sc, start),
                             injectThis(exp.kids[2], sc, start))
    [] exp.kind = "PrefixUnaryExpression" ->
         createPrefix(exp.text, injectThis(exp.kids[1], sc, start))
    [] exp.kind = "PostfixUnaryExpression" ->
         createPostfix(injectThis(exp.kids[1], sc, start), exp.text)
    [] exp.kind = "TypeOfExpression" -> createTypeOf(injectThis(exp.kids[1], sc, start))
    [] exp.kind = "DeleteExpression" -> createDelete(injectThis(exp.kids[1], sc, start))
    [] exp.kind = "VoidExpression" -> createVoid(injectThis(exp.kids[1], sc, start))
    [] exp.kind = "BinaryExpression" ->
         createBinary(injectThis(exp.kids[1], sc, start), exp.text,
                      injectThis(exp.kids[2], sc, start))
    [] exp.kind = "ConditionalExpression" ->
         createConditional(injectThis(exp.kids[1], sc, start),
                           injectThis(exp.kids[2], sc, start),
                           injectThis(exp.kids[3], sc, start))
    [] exp.kind = "CallExpression" ->
         createCall(injectThis(exp.kids[1], sc, start),
                    Map1(Tail(exp.kids), LAMBDA a : injectThis(a, sc, start)))
    [] exp.kind = "ParenthesizedExpression" ->
         createParen(injectThis(exp.kids[1], sc, start))
    [] exp.kind = "ObjectLiteralExpression" ->
         createObjectLiteral(
           Map1(exp.kids, LAMBDA p : injectThisForObjectLiteralElement(p, sc, start)))
    [] exp.kind = "ArrayLiteralExpression" ->
         createArrayLiteral(Map1(exp.kids, LAMBDA e : injectThis(e, sc, start)))
    [] exp.kind = "SpreadElement" -> createSpread(injectThis(exp.kids[1], sc, start))
    [] exp.kind = "ArrowFunction" /\ exp.kids[2].kind # "Block" ->
         [createArrowFunction(
            exp.kids[1],
            injectThis(exp.kids[2],
                       sc \o Flatten(Map1(exp.kids[1].kids, collectScope)),
                       start))
          EXCEPT !.text = exp.text]
    [] exp.kind = "TemplateExpression" ->
         createTemplateExpression(
           exp.kids[1],
           Map1(Tail(exp.kids),
                LAMBDA span : createTemplateSpan(injectThis(span.kids[1], sc, start),
                                                 span.kids[2])))
    [] OTHER -> afterInjectThis(exp)

injectThisForObjectLiteralElement(el, sc, start) ==
  CASE el.kind = "PropertyAssignment" ->
         LET elName == el.kids[1]
             elInit == el.kids[2]
             name == IF elName.kind # "ComputedPropertyName"
                     THEN setSourceMapRange(elName, start + getStart(elName).value,
                                            start + getEnd(elName).value)
                     ELSE createComputedPropertyName(injectThis(elName.kids[1], sc, start))
             initializer == injectThis(elInit, sc, start)
             \* getStart/getEnd are read after injectThis has run on the node
             after == afterInjectThis(elInit)
         IN Apply(<<name, initializer>>, LAMBDA made :
              IF Throws(made[1]) THEN thrownIn(made[1])
              ELSE IF Throws(made[2]) THEN thrownIn(made[2])
              ELSE IF getStart(after).threw THEN getStart(after).value
              ELSE createPropertyAssignment(
                     made[1],
                     setSourceMapRange(made[2], start + getStart(after).value,
                                       start + getEnd(after).value)))
    [] el.kind = "ShorthandPropertyAssignment" ->
         LET elName == el.kids[1]
             initializer == setSourceMapRange(injectThis(elName, sc, start),
                                              start + getStart(elName).value,
                                              start + getEnd(elName).value)
             \* an identifier in scope is returned as it is: el.name and the
             \* initializer are then one node, which now carries the range
             name == IF indexOf(sc, elName.text) < 0 THEN elName ELSE initializer
         IN createPropertyAssignment(name, initializer)
    [] el.kind = "SpreadAssignment" ->
         createSpreadAssignment(injectThis(el.kids[1], sc, start))
    [] OTHER -> el

\* What a call leaves of the node it was given.  injectThis writes to the
\* nodes of its argument: the last branch resets the position of the node
\* (lines 429-431) and injectThisForObjectLiteralElement sets source-map
\* ranges on names and initializers that are nodes of the argument (lines
\* 449, 453, 460).  The nodes are visited in the order of evaluation; a call
\* that throws leaves the nodes after the throwing one as they were.
\* What a call leaves is the record of the node and of whether the call threw.

\* the node with its i-th child as the call on that child left it
WithKid(exp, i, left) ==
  [node |-> [exp EXCEPT !.kids[i] = left.node], threw |-> left.threw]

RECURSIVE leftByInjectThis(_, _, _), leftByInjectThisForObjectLiteralElement(_, _, _),
          leftByEach(_, _, _, _, _)
\* the nodes from the i-th on, each by the call of its kind: a property by
\* injectThisForObjectLiteralElement, a template span by the call on its
\* expression, any other node by injectThis
leftByEach(exp, i, sc, start, threw) ==
  IF i > Len(exp.kids) \/ threw THEN [node |-> exp, threw |-> threw]
  ELSE Apply(
         CASE exp.kind = "ObjectLiteralExpression" ->
                leftByInjectThisForObjectLiteralElement(exp.kids[i], sc, start)
           [] exp.kind = "TemplateExpression" ->
                WithKid(exp.kids[i], 1, leftByInjectThis(exp.kids[i].kids[1], sc, start))
           [] OTHER -> leftByInjectThis(exp.kids[i], sc, start),
         LAMBDA left :
           leftByEach([exp EXCEPT !.kids[i] = left.node], i + 1, sc, start, left.threw))

\* exp after injectThis(exp, sc, start)
leftByInjectThis(exp, sc, start) ==
  CASE exp.kind = "Identifier" -> [node |-> exp, threw |-> FALSE]
    [] exp.kind = "PropertyAccessExpression" ->
         WithKid(exp, 1, leftByInjectThis(exp.kids[1], sc, start))
    [] exp.kind \in {"ElementAccessExpression", "PrefixUnaryExpression",
                     "PostfixUnaryExpression", "TypeOfExpression", "DeleteExpression",
                     "VoidExpression", "BinaryExpression", "ConditionalExpression",
                     "CallExpression", "ParenthesizedExpression",
                     "ObjectLiteralExpression", "ArrayLiteralExpression",
                     "SpreadElement"} ->
         leftByEach(exp, 1, sc, start, FALSE)
    [] exp.kind = "ArrowFunction" /\ exp.kids[2].kind # "Block" ->
         WithKid(exp, 2,
                 leftByInjectThis(exp.kids[2],
                                  sc \o Flatten(Map1(exp.kids[1].kids, collectScope)),
                                  start))
    \* the head is left alone, the spans follow it
    [] exp.kind = "TemplateExpression" -> leftByEach(exp, 2, sc, start, FALSE)
    [] OTHER -> [node |-> afterInjectThis(exp), threw |-> FALSE]

\* el after injectThisForObjectLiteralElement(el, sc, start)
leftByInjectThisForObjectLiteralElement(el, sc, start) ==
  CASE el.kind = "PropertyAssignment" ->
         LET elName == el.kids[1]
             name == IF elName.kind # "ComputedPropertyName"
                     THEN [node |-> setSourceMapRange(
                                      elName, start + getStart(elName).value,
                                      start + getEnd(elName).value),
                           threw |-> FALSE]
                     ELSE WithKid(elName, 1, leftByInjectThis(elName.kids[1], sc, start))
         IN Apply(WithKid(el, 1, name), LAMBDA named :
              IF named.threw THEN named
              ELSE Apply(leftByInjectThis(el.kids[2], sc, start), LAMBDA init :
                     IF init.threw THEN WithKid(named.node, 2, init)
                     ELSE IF getStart(init.node).threw
                     THEN WithKid(named.node, 2, [node |-> init.node, threw |-> TRUE])
                     \* the range is set on what injectThis returned: the
                     \* initializer itself when it is an identifier in scope
                     \* or of a kind the last branch takes
                     ELSE IF \/ ~isRewritten(init.node)
                             \/ /\ init.node.kind = "Identifier"
                                /\ indexOf(sc, init.node.text) >= 0
                     THEN WithKid(named.node, 2,
                                  [node |-> setSourceMapRange(
                                              init.node,
                                              start + getStart(init.node).value,
                                              start + getEnd(init.node).value),
                                   threw |-> FALSE])
                     ELSE WithKid(named.node, 2, init)))
    [] el.kind = "ShorthandPropertyAssignment" ->
         LET elName == el.kids[1]
         IN IF indexOf(sc, elName.text) < 0 THEN [node |-> el, threw |-> FALSE]
            ELSE WithKid(el, 1,
                         [node |-> setSourceMapRange(
                                     elName, start + getStart(elName).value,
                                     start + getEnd(elName).value),
                          threw |-> FALSE])
    [] el.kind = "SpreadAssignment" ->
         WithKid(el, 1, leftByInjectThis(el.kids[1], sc, start))
    [] OTHER -> [node |-> el, threw |-> FALSE]

----------------------------------------------------------------------------
(* parseExpression *)

\* code.slice(start, end): the template text is given by the pieces of
\* script text in it, code[<<start, end>>] is the piece at [start, end)
slice(cd, start, end) == cd[<<start, end>>]

parseExpressionImpl(exp, sc, start) ==
  LET wrappedExp == WrapParen(exp)
      statements == createSourceFile(wrappedExp)
  IN IF statements = <<>>
     \* statement is undefined and console.error reads statement.kind
     THEN TypeError
     ELSE IF statements[1].kind # "ExpressionStatement"
     THEN createStringLiteral("")
     ELSE LET parenthesis == statements[1].kids[1]
          IN injectThis(parenthesis.kids[1], sc, start - 1)

\* stampRange with the range of the text in parentheses
stampRangeOfWrapped(tsExp, start, end) ==
  IF tsExp.kind # "ObjectLiteralExpression"
  THEN setSourceMapRange(tsExp, start - 1, end + 1)
  ELSE tsExp

\* lines 317-320 of parseExpression: the range is set unless tsExp is an
\* object literal
stampRange(tsExp, start, end) ==
  IF tsExp.kind # "ObjectLiteralExpression"
  THEN setSourceMapRange(tsExp, start, end)
  ELSE tsExp

parseExpression(expression, cd, sc) ==
  LET start == expression.range[1]
      end == expression.range[2]
      expStr == slice(cd, start, end)
  IN stampRange(parseExpressionImpl(expStr, sc, start), start, end)

\* exp.parameters in parseParams: the parameters of the arrow function; exp
\* may be the empty-string literal, which has none (createArrowFunction
\* makes an empty list of undefined)
parametersOf(exp) ==
  IF Throws(exp) THEN exp
  ELSE IF exp.kind = "ArrowFunction" THEN exp.kids[1]
  ELSE createNodeArray(<<>>)

parseParams(params, cd, sc) ==
  IF params = <<>>
  \* params[0] is undefined and its range is read
  THEN TypeError
  ELSE LET start == params[1].range[1]
           end == params[Len(params)].range[2]
           paramsStr == slice(cd, start, end)
           arrowFnStr == WrapArrow(paramsStr)
       IN parametersOf(parseExpressionImpl(arrowFnStr, sc, start - 1))

----------------------------------------------------------------------------
(* Template AST (vue-eslint-parser) predicates *)

isVAttribute(node) == ~node.directive
isVBind(node) == node.directive /\ node.key.name.name = "bind"
isVOn(node) == node.directive /\ node.key.name.name = "on"
isVFor(node) == node.directive /\ node.key.name.name = "for"
\* isVSlot that knows the slot directive only
isVSlotOnlySlot(node) == node.directive /\ node.key.name.name = "slot"

isVSlot(node) ==
  node.directive /\ (node.key.name.name = "slot" \/ node.key.name.name = "slot-scope")

\* Array.prototype.find: the first element that satisfies the test, or null
find(s, Test(_)) ==
  IF \E i \in 1..Len(s) : Test(s[i])
  THEN s[CHOOSE i \in 1..Len(s) : Test(s[i]) /\ \A j \in 1..(i - 1) : ~Test(s[j])]
  ELSE null

----------------------------------------------------------------------------
(* Attributes and directives *)

\* transformNativeAttribute with the name as an identifier key
transformNativeAttributeUnquoted(attr) ==
  createPropertyAssignment(
    createIdentifier(attr.key.name),
    IF attr.value # null THEN createStringLiteral(attr.value.value) ELSE createTrue)

transformNativeAttribute(attr) ==
  createPropertyAssignment(
    createStringLiteral(attr.key.name),
    IF attr.value # null THEN createStringLiteral(attr.value.value) ELSE createTrue)

\* directiveToObjectElement with a dynamic key rewritten under the global
\* scope
directiveToObjectElementGlobalKey(dir, dirExp, cd, sc) ==
  LET name == dir.key.argument
  IN IF name # null
     THEN IF name.type = "VIdentifier"
          THEN createPropertyAssignment(createStringLiteral(name.name), dirExp)
          ELSE IF name.expression = null
               THEN createSpreadAssignment(createObjectLiteral(<<>>))
               ELSE createPropertyAssignment(
                      createComputedPropertyName(
                        parseExpression(name.expression, cd, globalScope)),
                      dirExp)
     ELSE createSpreadAssignment(dirExp)

directiveToObjectElement(dir, dirExp, cd, sc) ==
  LET name == dir.key.argument
  IN IF name # null
     THEN IF name.type = "VIdentifier"
          THEN createPropertyAssignment(createStringLiteral(name.name), dirExp)
          ELSE IF name.expression = null
               THEN createSpreadAssignment(createObjectLiteral(<<>>))
               ELSE createPropertyAssignment(
                      createComputedPropertyName(parseExpression(name.expression, cd, sc)),
                      dirExp)
     ELSE createSpreadAssignment(dirExp)

transformVBind(vBind, cd, sc) ==
  LET exp == IF vBind.value # null /\ vBind.value.expression # null
             THEN parseExpression(vBind.value.expression, cd, sc)
             ELSE createTrue
  \* an exception thrown while exp is computed leaves transformVBind
  IN IF Throws(exp) THEN thrownIn(exp) ELSE directiveToObjectElement(vBind, exp, cd, sc)

transformStatement(statement, cd, sc) ==
  IF statement.type # "ExpressionStatement"
  THEN createStatement(createStringLiteral(""))
  ELSE createStatement(parseExpression(statement.expression, cd, sc))

\* transformVOn with the scope of the directive itself extended for the
\* handler body, so that the argument is rewritten under it too
transformVOnLeakingScope(vOn, cd, sc) ==
  LET exp ==
        IF vOn.value # null /\ vOn.value.expression # null
        THEN LET vOnExp == vOn.value.expression
             IN IF vOnExp.type # "VOnExpression"
                THEN parseExpression(vOnExp, cd, sc)
                ELSE createCall(
                       createIdentifier(listenerHelperName),
                       << createThis,
                          createFunctionExpression(
                            createNodeArray(<<createParameter("$event", "Event")>>),
                            createBlock(
                              Map1(vOnExp.body,
                                   LAMBDA st : transformStatement(st, cd, sc \o vOnScope)))) >>)
        ELSE createTrue
  IN IF Throws(exp) THEN thrownIn(exp)
     ELSE directiveToObjectElement(
       vOn, exp, cd,
       IF vOn.value # null /\ vOn.value.expression # null
          /\ vOn.value.expression.type = "VOnExpression"
       THEN sc \o vOnScope ELSE sc)

\* transformVOn with the statements of the body rewritten under the scope
\* of the directive
transformVOnOuterScope(vOn, cd, sc) ==
  LET exp ==
        IF vOn.value # null /\ vOn.value.expression # null
        THEN LET vOnExp == vOn.value.expression
             IN IF vOnExp.type # "VOnExpression"
                THEN parseExpression(vOnExp, cd, sc)
                ELSE createCall(
                       createIdentifier(listenerHelperName),
                       << createThis,
                          createFunctionExpression(
                            createNodeArray(<<createParameter("$event", "Event")>>),
                            createBlock(
                              Map1(vOnExp.body,
                                   LAMBDA st : transformStatement(st, cd, sc)))) >>)
        ELSE createTrue
  IN IF Throws(exp) THEN thrownIn(exp) ELSE directiveToObjectElement(vOn, exp, cd, sc)

transformVOn(vOn, cd, sc) ==
  LET exp ==
        IF vOn.value # null /\ vOn.value.expression # null
        THEN LET vOnExp == vOn.value.expression
             IN IF vOnExp.type # "VOnExpression"
                THEN parseExpression(vOnExp, cd, sc)
                ELSE LET newScope == sc \o vOnScope
                     IN createCall(
                          createIdentifier(listenerHelperName),
                          << createThis,
                             createFunctionExpression(
                               createNodeArray(<<createParameter("$event", "Event")>>),
                               createBlock(
                                 Map1(vOnExp.body,
                                      LAMBDA st : transformStatement(st, cd, newScope)))) >>)
        ELSE createTrue
  IN IF Throws(exp) THEN thrownIn(exp) ELSE directiveToObjectElement(vOn, exp, cd, sc)

transformDirective(dir, cd, sc) ==
  LET a == dir.key.argument
      r1 == IF a # null /\ a.type = "VExpressionContainer" /\ a.expression # null
            THEN <<parseExpression(a.expression, cd, sc)>>
            ELSE <<>>
      r2 == IF dir.value # null /\ dir.value.expression # null
            THEN <<parseExpression(dir.value.expression, cd, sc)>>
            ELSE <<>>
  IN r1 \o r2

\* what one round of the attrs.forEach callback pushes to data
attributeData(attr, cd, sc) ==
  LET none == [props |-> <<>>, on |-> <<>>, directives |-> <<>>]
  IN CASE isVAttribute(attr) ->
            IF attr.key.name # "class" /\ attr.key.name # "style"
            THEN [none EXCEPT !.props = <<transformNativeAttribute(attr)>>]
            ELSE none
       [] ~isVAttribute(attr) /\ isVBind(attr) ->
            [none EXCEPT !.props = <<transformVBind(attr, cd, sc)>>]
       [] ~isVAttribute(attr) /\ ~isVBind(attr) /\ isVOn(attr) ->
            [none EXCEPT !.on = <<transformVOn(attr, cd, sc)>>]
       [] ~isVAttribute(attr) /\ ~isVBind(attr) /\ ~isVOn(attr) /\ isVFor(attr) -> none
       [] ~isVAttribute(attr) /\ ~isVBind(attr) /\ ~isVOn(attr) /\ ~isVFor(attr)
          /\ isVSlot(attr) -> none
       [] OTHER -> [none EXCEPT !.directives = transformDirective(attr, cd, sc)]

\* foldAttributeData that leaves out the properties without entries
foldAttributeDataNonEmpty(data) ==
  createObjectLiteral(
    (IF data.props = <<>> THEN <<>>
     ELSE <<createPropertyAssignment(createIdentifier("props"),
                                     createObjectLiteral(data.props))>>)
    \o (IF data.on = <<>> THEN <<>>
        ELSE <<createPropertyAssignment(createIdentifier("on"),
                                        createObjectLiteral(data.on))>>)
    \o (IF data.directives = <<>> THEN <<>>
        ELSE <<createPropertyAssignment(createIdentifier("directives"),
                                        createArrayLiteral(data.directives))>>))

\* lines 160-164 of transformAttributes: data folded into one object literal
foldAttributeData(data) ==
  createObjectLiteral(
    << createPropertyAssignment(createIdentifier("props"),
                                createObjectLiteral(data.props)),
       createPropertyAssignment(createIdentifier("on"), createObjectLiteral(data.on)),
       createPropertyAssignment(createIdentifier("directives"),
                                createArrayLiteral(data.directives)) >>)

\* data after the rounds of attrs.forEach
collectAttributeData(each) ==
  [props |-> Flatten(Map1(each, LAMBDA d : d.props)),
   on |-> Flatten(Map1(each, LAMBDA d : d.on)),
   directives |-> Flatten(Map1(each, LAMBDA d : d.directives))]

\* the attributes data of the rounds of attrs.forEach; a round that throws
\* ends forEach (made: the nodes of the rounds, in the order of the rounds)
dataOfRounds(each) ==
  Apply(each, LAMBDA rounds :
    LET made == Syn("", "", Flatten(Map1(rounds, LAMBDA d : d.props \o d.on \o d.directives)))
    IN IF Throws(made) THEN thrownIn(made)
       ELSE foldAttributeData(collectAttributeData(rounds)))

transformAttributes(attrs, cd, sc) ==
  dataOfRounds(Map1(attrs, LAMBDA attr : attributeData(attr, cd, sc)))

----------------------------------------------------------------------------
(* Elements and children *)

\* wrapIteration with the iteration source parsed under the scope of the
\* inside of the element
wrapIterationInnerScope(node, element, cd, sc) ==
  LET vFor == find(node.startTag.attributes, isVFor)
      newScope == sc \o Map1(node.variables, LAMBDA v : v.id.name)
  IN IF vFor = null \/ vFor.value = null \/ vFor.value.expression = null
     THEN element
     ELSE LET exp == vFor.value.expression
          IN Apply(element, LAMBDA el :
               IF Throws(el) THEN thrownIn(el)
               ELSE createCall(
                      createIdentifier(iterationHelperName),
                      << parseExpression(exp.right, cd, newScope),
                         createArrowFunction(parseParams(exp.left, cd, sc), el) >>))

\* lines 67-88 of transformElement: the element, wrapped by the iteration
\* helper when its v-for directive has an expression
wrapIteration(node, element, cd, sc) ==
  LET vFor == find(node.startTag.attributes, isVFor)
  IN IF vFor = null \/ vFor.value = null \/ vFor.value.expression = null
     THEN element
     ELSE LET exp == vFor.value.expression
          \* element is made first: what it throws leaves transformElement
          IN Apply(element, LAMBDA el :
               IF Throws(el) THEN thrownIn(el)
               ELSE createCall(
                      createIdentifier(iterationHelperName),
                      << parseExpression(exp.right, cd, sc),
                         createArrowFunction(parseParams(exp.left, cd, sc), el) >>))

RECURSIVE transformElement(_, _, _), transformChild(_, _, _)
\* lines 56-65 of transformElement: the component helper call under newScope
componentCall(node, cd, newScope) ==
  createCall(
    createIdentifier(componentHelperName),
    << createStringLiteral(node.name),
       transformAttributes(node.startTag.attributes, cd, newScope),
       createArrayLiteral(
         Map1(node.children, LAMBDA c : transformChild(c, cd, newScope))) >>)

\* transformElement with the children and attributes left under the scope
\* of the outside of the element
transformElementLosingLocals(node, cd, sc) ==
  wrapIteration(node, componentCall(node, cd, sc), cd, sc)

transformElement(node, cd, sc) ==
  wrapIteration(
    node,
    componentCall(node, cd, sc \o Map1(node.variables, LAMBDA v : v.id.name)),
    cd, sc)

transformChild(child, cd, sc) ==
  CASE child.type = "VElement" -> transformElement(child, cd, sc)
    [] child.type = "VExpressionContainer" ->
         IF child.expression # null
         THEN parseExpression(child.expression, cd, sc)
         ELSE createStringLiteral("")
    [] child.type = "VText" -> createStringLiteral(child.value)

transformTemplate(program, cd) ==
  LET template == program.templateBody
  IN IF template = null
     THEN <<>>
     ELSE Map1(template.children, LAMBDA c : transformChild(c, cd, globalScope))

----------------------------------------------------------------------------
(* Diagnostic mapper *)

DiagnosticSeverityError == 1

\* ts.flattenDiagnosticMessageText(messageText, newLine).  A string is a
\* sequence of pieces; messageText is a string or a DiagnosticMessageChain
\* [messageText, next].
RECURSIVE flattenChain(_, _, _)
flattenChain(chain, newLine, indent) ==
  IF chain = null THEN <<>>
  ELSE (IF indent > 0 THEN <<newLine>> \o [i \in 1..indent |-> "  "] ELSE <<>>)
       \o chain.messageText
       \o flattenChain(chain.next, newLine, indent + 1)

flattenDiagnosticMessageText(messageText, newLine) ==
  IF messageText.kind = "string"
  THEN messageText.text
  ELSE flattenChain(messageText, newLine, 0)

\* mapBackRange of services/typescriptService/sourceMap: the template range of
\* the innermost entry of the source map that holds the start of the span and
\* maps to a non-empty range, or the range at offset 0 when there is none
SentinelRange == <<0, 0>>

mapBackRange(span, sourceMap) ==
  LET hits == {e \in sourceMap : /\ e.from[1] <= span.start
                                 /\ span.start < e.from[2]
                                 /\ e.to[1] < e.to[2]}
  IN IF hits = {} THEN SentinelRange
     ELSE (CHOOSE e \in hits :
             \A o \in hits : e.from[2] - e.from[1] <= o.from[2] - o.from[1]).to

\* doValidation that drops the diagnostics the source map has no range for
doValidationDroppingUnmapped(host) ==
  IF ~host.includesFile
  THEN <<>>
  ELSE Map1(SelectSeq(host.semanticDiagnostics,
                      LAMBDA diag :
                        mapBackRange(diag, host.templateSourceMap) # SentinelRange),
            LAMBDA diag :
              [range |-> mapBackRange(diag, host.templateSourceMap),
               severity |-> DiagnosticSeverityError,
               message |-> flattenDiagnosticMessageText(diag.messageText, "\n"),
               code |-> diag.code,
               source |-> "Vetur"])

\* host: what serviceHost.updateCurrentTextDocument and the template service
\* answer for the document: whether the service includes the file, the raw
\* semantic diagnostics, the source map
doValidation(host) ==
  IF ~host.includesFile
  THEN <<>>
  ELSE Map1(host.semanticDiagnostics,
            LAMBDA diag :
              [range |-> mapBackRange(diag, host.templateSourceMap),
               severity |-> DiagnosticSeverityError,
               message |-> flattenDiagnosticMessageText(diag.messageText, "\n"),
               code |-> diag.code,
               source |-> "Vetur"])

----------------------------------------------------------------------------
(* Inputs: script texts *)

MaxAttrs == 2
MaxChildren == 1
MaxDepth == 2
MaxDiags == 2

Id(n) == Txt("Identifier", n, <<>>)
Num(n) == Txt("NumericLiteral", n, <<>>)
Param(binding) == Txt("Parameter", "", <<binding>>)
Arrow(params, body) == Txt("ArrowFunction", "=>", <<Txt("Parameters", "", params), body>>)
Obj(props) == Txt("ObjectLiteralExpression", "", props)
Prop(name, init) == Txt("PropertyAssignment", "", <<name, init>>)
Elem(shape, kids) == Txt("BindingElement", shape, kids)

\* a: a member of the component, x: a name templates bind,
\* Math: a global, $event: the event of a handler body
Vars == {Id("a"), Id("x")}
Atoms == Vars \cup {Id("Math"), Id("$event"), Id("arguments"), Num("1"),
                    Txt("StringLiteral", "s", <<>>), Txt("ThisKeyword", "this", <<>>)}

\* one expression of every kind injectThis rewrites, over the variables
Rewritten ==
  UNION {
    { Txt("PropertyAccessExpression", "", <<e, Id("x")>>),
      Txt("ElementAccessExpression", "", <<e, f>>),
      Txt("PrefixUnaryExpression", "!", <<e>>),
      Txt("PostfixUnaryExpression", "++", <<e>>),
      Txt("TypeOfExpression", "", <<e>>),
      Txt("DeleteExpression", "", <<Txt("PropertyAccessExpression", "", <<e, Id("a")>>)>>),
      Txt("VoidExpression", "", <<e>>),
      Txt("BinaryExpression", "+", <<e, f>>),
      Txt("BinaryExpression", "=", <<e, Num("1")>>),
      Txt("BinaryExpression", ",", <<e, f>>),
      Txt("ConditionalExpression", "", <<e, f, Num("1")>>),
      Txt("CallExpression", "", <<e>>),
      Txt("CallExpression", "", <<e, f, Id("$event")>>),
      Txt("ParenthesizedExpression", "", <<e>>),
      Txt("ArrayLiteralExpression", "", <<e, Txt("SpreadElement", "", <<f>>)>>),
      Obj(<<Prop(e, f)>>),
      Obj(<<Prop(Txt("ComputedPropertyName", "", <<e>>), f)>>),
      Obj(<<Txt("ShorthandPropertyAssignment", "", <<e>>)>>),
      Obj(<<Txt("SpreadAssignment", "", <<e>>), Prop(Id("k"), Num("1"))>>),
      Arrow(<<Param(e)>>, Txt("BinaryExpression", "+", <<Id("a"), f>>)),
      Txt("TemplateExpression", "",
          <<Txt("TemplateHead", "h", <<>>),
            Txt("TemplateSpan", "", <<e, Txt("TemplateMiddle", "", <<>>)>>),
            Txt("TemplateSpan", "", <<f, Txt("TemplateTail", "t", <<>>)>>)>>)
    } : e \in Vars, f \in Vars }

\* arrow functions with binding patterns
Arrows ==
  { Arrow(<<>>, Id("x")),
    \* ({a, b: x, ...r}) => a + x + b + r
    Arrow(<<Param(Txt("ObjectBindingPattern", "",
                      <<Elem("", <<Id("a")>>), Elem("prop", <<Id("b"), Id("x")>>),
                        Elem("rest", <<Id("r")>>)>>))>>,
          Txt("ArrayLiteralExpression", "", <<Id("a"), Id("x"), Id("b"), Id("r")>>)),
    \* ([a, , x]) => a + x
    Arrow(<<Param(Txt("ArrayBindingPattern", "",
                      <<Elem("", <<Id("a")>>), Txt("OmittedExpression", "", <<>>),
                        Elem("", <<Id("x")>>)>>))>>,
          Txt("BinaryExpression", "+", <<Id("a"), Id("x")>>)),
    \* (x = a) => x
    Arrow(<<Txt("Parameter", "init", <<Id("x"), Id("a")>>)>>, Id("x")),
    \* (...x) => x(a)
    Arrow(<<Txt("Parameter", "rest", <<Id("x")>>)>>,
          Txt("CallExpression", "", <<Id("x"), Id("a")>>)),
    \* x => a => x + a
    Arrow(<<Param(Id("x"))>>,
          Arrow(<<Param(Id("a"))>>, Txt("BinaryExpression", "+", <<Id("x"), Id("a")>>))) }

\* expressions of kinds injectThis has no branch for
NotRewritten ==
  UNION {
    { Txt("NewExpression", "", <<e, f>>),
      \* (x) => {a;}
      Arrow(<<Param(e)>>, Txt("Block", "", <<Txt("ExpressionStatement", "", <<f>>)>>)),
      \* {m(){}}
      Obj(<<Txt("MethodDeclaration", "",
                <<Id("m"), Txt("Parameters", "", <<>>), Txt("Block", "", <<>>)>>)>>),
      \* a + new x()
      Txt("BinaryExpression", "+", <<e, Txt("NewExpression", "", <<f>>)>>)
    } : e \in Vars, f \in Vars }

\* a parameter of an arrow function used after the function:
\* a(x => x, x), [x => x + a, x]
AfterArrows ==
  { Txt("CallExpression", "", <<Id("a"), Arrow(<<Param(Id("x"))>>, Id("x")), Id("x")>>),
    Txt("ArrayLiteralExpression", "",
        <<Arrow(<<Param(Id("x"))>>, Txt("BinaryExpression", "+", <<Id("x"), Id("a")>>)),
          Id("x")>>) }

\* object literals with an initializer of a kind injectThis has no branch
\* for: {k: new a(x)}, {k: new a(x), j: new x()}, {k: (x) => {}},
\* {k: {a: new x()}}
ResetInitializers ==
  { Obj(<<Prop(Id("k"), Txt("NewExpression", "", <<Id("a"), Id("x")>>))>>),
    Obj(<<Prop(Id("k"), Txt("NewExpression", "", <<Id("a"), Id("x")>>)),
          Prop(Id("j"), Txt("NewExpression", "", <<Id("x")>>))>>),
    Obj(<<Prop(Id("k"), Arrow(<<Param(Id("x"))>>, Txt("Block", "", <<>>)))>>),
    Obj(<<Prop(Id("k"), Obj(<<Prop(Id("a"), Txt("NewExpression", "", <<Id("x")>>))>>))>>) }

\* a comma expression: a,x
CommaText == Txt("BinaryExpression", ",", <<Id("a"), Id("x")>>)

\* the texts of script expressions
Texts ==
  Atoms \cup Rewritten \cup Arrows \cup NotRewritten \cup {Obj(<<>>)} \cup AfterArrows
  \cup ResetInitializers

\* the texts used inside attributes and children
SmallTexts ==
  { Id("a"), Id("x"), Id("$event"),
    Txt("CallExpression", "", <<Id("a"), Id("x"), Id("$event")>>),
    Obj(<<Prop(Id("k"), Id("x"))>>),
    Arrow(<<Param(Id("x"))>>, Txt("BinaryExpression", "+", <<Id("x"), Id("a")>>)) }

\* the scopes a call is made under
Scopes == {globalScope, globalScope \o <<"x">>, globalScope \o vOnScope}

----------------------------------------------------------------------------
(* Inputs: template ASTs with the code they were parsed from.               *)
(* A template is written as nested records (W-records); MkX builds the AST  *)
(* node the template parser gives for it at an offset, CodeX the pieces of  *)
(* script text of the code at their ranges.                                 *)

MkExpr(t, at) == [type |-> t.kind, range |-> <<at, at + Width(t)>>]

NoArg == [k |-> "none"]
StaticArg(n) == [k |-> "static", name |-> n]
DynamicArg(t) == [k |-> "dynamic", text |-> t]
NoValue == [k |-> "none"]
EmptyValue == [k |-> "empty"]
StringValue(v) == [k |-> "string", s |-> v]
ExprValue(t) == [k |-> "expr", text |-> t]
VOnValue(body) == [k |-> "von", body |-> body]
VForValue(left, right) == [k |-> "for", left |-> left, right |-> right]
IfStatement == Txt("@IfStatement", "", <<>>)

PlainW(name, value) == [directive |-> FALSE, name |-> name, arg |-> NoArg, value |-> value]
DirW(name, a, value) == [directive |-> TRUE, name |-> name, arg |-> a, value |-> value]

ValAt(at) == at + 30
StmtAt(at, i) == ValAt(at) + 20 * (i - 1)
RightAt(at) == ValAt(at) + 20

ParameterList(left) == Txt("ParameterList", "", left)

MkArg(a, at) ==
  CASE a.k = "none" -> null
    [] a.k = "static" -> [type |-> "VIdentifier", name |-> a.name]
    [] a.k = "dynamic" ->
         [type |-> "VExpressionContainer",
          expression |-> IF a.text = null THEN null ELSE MkExpr(a.text, at)]

MkStatement(t, at) ==
  IF t = IfStatement THEN [type |-> "IfStatement"]
  ELSE [type |-> "ExpressionStatement", expression |-> MkExpr(t, at)]

MkValue(v, at) ==
  CASE v.k = "none" -> null
    [] v.k = "empty" -> [expression |-> null]
    [] v.k = "expr" -> [expression |-> MkExpr(v.text, ValAt(at))]
    [] v.k = "von" ->
         [expression |->
            [type |-> "VOnExpression",
             body |-> [i \in 1..Len(v.body) |-> MkStatement(v.body[i], StmtAt(at, i))]]]
    [] v.k = "for" ->
         [expression |->
            [type |-> "VForExpression",
             left |-> IF v.left = <<>> THEN <<>>
                      ELSE LET laid == Layout(ParameterList(v.left), ValAt(at)).kids
                           IN [i \in 1..Len(laid) |->
                                 [type |-> bindingName(laid[i]).kind,
                                  range |-> <<laid[i].pos, laid[i].end>>]],
             right |-> MkExpr(v.right, RightAt(at))]]

MkAttr(w, at) ==
  IF ~w.directive
  THEN [directive |-> FALSE, key |-> [name |-> w.name],
        value |-> IF w.value.k = "none" THEN null ELSE [value |-> w.value.s]]
  ELSE [directive |-> TRUE,
        key |-> [name |-> [name |-> w.name], argument |-> MkArg(w.arg, at)],
        value |-> MkValue(w.value, at)]

Piece(t, at) == <<<<at, at + Width(t)>>, t>>

CodeAttr(w, at) ==
  (IF w.arg.k = "dynamic" /\ w.arg.text # null THEN {Piece(w.arg.text, at)} ELSE {})
  \cup
  CASE w.value.k = "expr" -> {Piece(w.value.text, ValAt(at))}
    [] w.value.k = "von" ->
         {Piece(w.value.body[i], StmtAt(at, i)) :
            i \in {j \in 1..Len(w.value.body) : w.value.body[j] # IfStatement}}
    [] w.value.k = "for" ->
         (IF w.value.left = <<>> THEN {}
          ELSE {Piece(ParameterList(w.value.left), ValAt(at))})
         \cup {Piece(w.value.right, RightAt(at))}
    [] OTHER -> {}

AttrAt(base, i) == base + 100 * i

MkAttrs(ws, base) == [i \in 1..Len(ws) |-> MkAttr(ws[i], AttrAt(base, i))]
CodeAttrs(ws, base) == UNION {CodeAttr(ws[i], AttrAt(base, i)) : i \in 1..Len(ws)}

\* the code with the given pieces of script text
CodeOf(pieces) ==
  [r \in {p[1] : p \in pieces} |-> (CHOOSE p \in pieces : p[1] = r)[2]]

\* the variables the template parser declares on an element: the names its
\* v-for directives bind, those of every directive with an expression
VariablesOf(ws) ==
  LET fors == SelectSeq(ws, LAMBDA w : w.directive /\ w.name = "for" /\ w.value.k = "for")
  IN Map1(Flatten(Map1(fors, LAMBDA w : Flatten(Map1(w.value.left, collectScope)))),
          LAMBDA n : [id |-> [name |-> n]])

TextW(v) == [k |-> "text", value |-> v]
ExprW(t) == [k |-> "expr", text |-> t]
ElementW(name, attrs, children) ==
  [k |-> "element", name |-> name, attrs |-> attrs, children |-> children]

ChildAt(base, step, i) == base + step * i

RECURSIVE MkChild(_, _, _), CodeChild(_, _, _)
MkChild(w, base, step) ==
  CASE w.k = "text" -> [type |-> "VText", value |-> w.value]
    [] w.k = "expr" ->
         [type |-> "VExpressionContainer",
          expression |-> IF w.text = null THEN null ELSE MkExpr(w.text, base)]
    [] w.k = "element" ->
         [type |-> "VElement", name |-> w.name,
          startTag |-> [attributes |-> MkAttrs(w.attrs, base)],
          children |-> IF w.children = <<>> THEN <<>>
                       ELSE [i \in 1..Len(w.children) |->
                               MkChild(w.children[i], ChildAt(base, step, i), step \div 10)],
          variables |-> VariablesOf(w.attrs)]
CodeChild(w, base, step) ==
  CASE w.k = "text" -> {}
    [] w.k = "expr" -> IF w.text = null THEN {} ELSE {Piece(w.text, base)}
    [] w.k = "element" ->
         CodeAttrs(w.attrs, base)
         \cup UNION {CodeChild(w.children[i], ChildAt(base, step, i), step \div 10) :
                       i \in 1..Len(w.children)}

MkProgram(children) ==
  [templateBody |->
     [children |-> IF children = <<>> THEN <<>>
                   ELSE [i \in 1..Len(children) |->
                           MkChild(children[i], ChildAt(0, 100000, i), 10000)]]]
CodeProgram(children) ==
  UNION {CodeChild(children[i], ChildAt(0, 100000, i), 10000) :
           i \in 1..Len(children)}

----------------------------------------------------------------------------
(* Inputs: attributes, elements, diagnostics *)

SeqsUpTo(S, n) == UNION {[1..k -> S] : k \in 0..n}

\* the attributes attribute lists are made of
AttrWs ==
  { PlainW("title", StringValue("v")),
    PlainW("class", StringValue("c")),
    PlainW("style", StringValue("color:red")),
    PlainW("disabled", NoValue),
    DirW("bind", NoArg, ExprValue(Id("a"))),
    DirW("bind", StaticArg("k"), ExprValue(Id("x"))),
    DirW("bind", DynamicArg(Id("x")), ExprValue(Obj(<<Prop(Id("k"), Id("x"))>>))),
    DirW("bind", DynamicArg(null), ExprValue(Id("a"))),
    DirW("bind", StaticArg("k"), NoValue),
    DirW("on", StaticArg("click"), ExprValue(Id("a"))),
    DirW("on", StaticArg("click"), VOnValue(<<Id("x"), IfStatement, Id("$event")>>)),
    DirW("on", DynamicArg(Id("$event")), VOnValue(<<Id("$event")>>)),
    DirW("on", NoArg, NoValue),
    DirW("bind", StaticArg("e"), ExprValue(Id("$event"))),
    DirW("for", NoArg, VForValue(<<Param(Id("x"))>>, Id("a"))),
    DirW("for", NoArg, NoValue),
    DirW("slot", StaticArg("s"), ExprValue(Id("a"))),
    DirW("slot-scope", NoArg, ExprValue(Id("x"))),
    DirW("show", DynamicArg(Id("a")), ExprValue(Id("x"))),
    DirW("show", NoArg, EmptyValue),
    DirW("show", NoArg, ExprValue(CommaText)),
    DirW("model", NoArg, ExprValue(Id("a"))) }

\* the attribute lists of a start tag
AttrLists == SeqsUpTo(AttrWs, MaxAttrs)

\* arguments and values of v-bind and v-on directives
ArgWs == {NoArg, StaticArg("k"), DynamicArg(null)}
         \cup {DynamicArg(t) : t \in {Id("a"), Id("x"), Id("$event"), CommaText}}
ValueWs ==
  {NoValue, EmptyValue}
  \cup {ExprValue(t) : t \in SmallTexts \cup {CommaText}
                            \cup ResetInitializers}
BodyWs ==
  {VOnValue(b) : b \in SeqsUpTo({Id("x"), Id("$event"), IfStatement, Obj(<<>>)}, 2)}

\* the attribute lists of the elements of a template
ElementAttrs ==
  { <<>>,
    \* a v-for without value before one with a value: find takes the first
    <<DirW("for", NoArg, NoValue),
      DirW("for", NoArg, VForValue(<<Param(Id("x"))>>, Id("a")))>>,
    <<DirW("for", NoArg, VForValue(<<Param(Id("x"))>>, Id("x")))>>,
    <<DirW("for", NoArg, VForValue(<<Param(Id("x")), Param(Id("i"))>>, Id("a"))),
      DirW("bind", StaticArg("k"), ExprValue(Id("x")))>>,
    <<DirW("on", StaticArg("click"), VOnValue(<<Id("x")>>))>> }

Leaves == {ExprW(Id("x")), ExprW(Id("a"))}

RECURSIVE Elements(_)
Elements(d) ==
  { ElementW("li", attrs, leaves \o nested) :
      attrs \in ElementAttrs,
      leaves \in SeqsUpTo(Leaves, MaxChildren),
      nested \in IF d <= 1 THEN {<<>>}
                 ELSE {<<>>} \cup {<<e>> : e \in Elements(d - 1)} }

\* the children of a template root
TopChildren ==
  {TextW("t"), ExprW(null),
   ElementW("p", <<PlainW("class", StringValue("c")), PlainW("style", StringValue("color:red")),
                   PlainW("data-foo", StringValue("bar"))>>, <<TextW("t")>>),
   ElementW("p", <<DirW("for", NoArg, VForValue(<<>>, Id("a")))>>, <<>>),
   \* a start tag with two v-for directives: find takes the first
   ElementW("p", <<DirW("for", NoArg, VForValue(<<Param(Id("x"))>>, Id("a"))),
                   DirW("for", NoArg, NoValue)>>, <<ExprW(Id("x"))>>),
   ElementW("p", <<DirW("for", NoArg, VForValue(<<Param(Id("x"))>>, Id("x"))),
                   DirW("for", NoArg, VForValue(<<Param(Id("i"))>>, Id("a")))>>,
            <<ExprW(Id("x"))>>),
   ElementW("p", <<DirW("for", NoArg, NoValue)>>, <<ExprW(Id("x"))>>)}
  \cup {ExprW(t) : t \in SmallTexts \cup {CommaText}}
  \cup {ExprW(Obj(<<Prop(Id("k"), Txt("NewExpression", "", <<Id("a"), Id("x")>>))>>))}
  \cup {ElementW("div", <<DirW("for", NoArg, VForValue(<<Param(Id("x"))>>, CommaText))>>,
                  <<>>)}
  \cup {e \in Elements(1) : Len(e.children) <= 1}

StringMessage(pieces) == [kind |-> "string", text |-> pieces]
Chain(pieces, next) == [kind |-> "chain", messageText |-> pieces, next |-> next]

\* raw diagnostics of the template service: category 0 warning, 1 error,
\* 2 suggestion
RawDiagnostics ==
  { [start |-> 3, length |-> 2, code |-> 2339, category |-> 1,
     messageText |-> StringMessage(<<"Property 'a' does not exist on type">>)],
    [start |-> 12, length |-> 1, code |-> 2345, category |-> 1,
     messageText |-> Chain(<<"Argument of type">>, Chain(<<"Type '123'">>, null))],
    [start |-> 50, length |-> 4, code |-> 2322, category |-> 0,
     messageText |-> Chain(<<"m1">>, Chain(<<"m2">>, Chain(<<"m3">>, null)))],
    [start |-> 7, length |-> 0, code |-> 7006, category |-> 2,
     messageText |-> StringMessage(<<"Parameter 'x' implicitly has an 'any' type">>)],
    [start |-> 21, length |-> 3, code |-> 2339, category |-> 1,
     messageText |-> StringMessage(<<"Property 'b' does not exist on type">>)] }

SourceMaps ==
  { {},
    { [from |-> <<0, 10>>, to |-> <<100, 110>>],
      [from |-> <<2, 6>>, to |-> <<102, 106>>],
      [from |-> <<20, 25>>, to |-> <<120, 120>>] } }

Hosts ==
  [includesFile : BOOLEAN,
   semanticDiagnostics : SeqsUpTo(RawDiagnostics, MaxDiags),
   templateSourceMap : SourceMaps]

----------------------------------------------------------------------------
(* The calls: a behaviour is one call, its arguments chosen at the start *)

\* what the caller gets: the value returned, or the exception thrown
Outcome(v) == IF Throws(v) THEN Thrown(thrownIn(v)) ELSE Returned(v)
OutcomeOfList(vs) ==
  IF \E i \in 1..Len(vs) : Throws(vs[i])
  THEN Thrown(thrownIn(Syn("", "", vs)))
  ELSE Returned(vs)

Called(f, a, sc, cd) ==
  /\ pc = "call"
  /\ fn = f
  /\ arg = a
  /\ scope = sc
  /\ code = cd
  /\ result = Returned(null)

Init ==
  \/ \E t \in Texts, sc \in Scopes, start \in {0, 9} :
       Called("injectThis", [exp |-> Layout(WrapParen(t), 0).kids[1], start |-> start],
              sc, <<>>)
  \/ \E t \in Texts, at \in {1, 40}, sc \in Scopes :
       Called("parseExpression", MkExpr(t, at), sc, CodeOf({Piece(t, at)}))
  \/ \E a \in ArgWs, v \in ValueWs, sc \in Scopes :
       LET w == DirW("bind", a, v)
       IN Called("transformVBind", MkAttr(w, 100), sc, CodeOf(CodeAttr(w, 100)))
  \/ \E a \in ArgWs, v \in ValueWs \cup BodyWs, sc \in Scopes :
       LET w == DirW("on", a, v)
       IN Called("transformVOn", MkAttr(w, 100), sc, CodeOf(CodeAttr(w, 100)))
  \/ \E ws \in AttrLists, sc \in {globalScope, globalScope \o <<"x">>} :
       Called("transformAttributes", MkAttrs(ws, 0), sc, CodeOf(CodeAttrs(ws, 0)))
  \/ \E w \in Elements(MaxDepth), sc \in {globalScope, globalScope \o <<"x">>} :
       Called("transformElement", MkChild(w, 100000, 10000), sc,
              CodeOf(CodeChild(w, 100000, 10000)))
  \/ Called("transformTemplate", [templateBody |-> null], globalScope, <<>>)
  \/ \E children \in SeqsUpTo(TopChildren, MaxChildren + 1) :
       Called("transformTemplate", MkProgram(children), globalScope,
              CodeOf(CodeProgram(children)))
  \/ \E host \in Hosts : Called("doValidation", host, <<>>, <<>>)

CallInjectThis ==
  /\ pc = "call"
  /\ fn = "injectThis"
  /\ pc' = "done"
  /\ result' = Outcome(injectThis(arg.exp, scope, arg.start))
  \* the call writes to the nodes of the expression it was given
  /\ arg' = [arg EXCEPT !.exp = leftByInjectThis(arg.exp, scope, arg.start).node]
  /\ UNCHANGED <<fn, scope, code>>

CallParseExpression ==
  /\ pc = "call"
  /\ fn = "parseExpression"
  /\ pc' = "done"
  /\ result' = Outcome(parseExpression(arg, code, scope))
  /\ UNCHANGED <<fn, arg, scope, code>>

CallTransformVBind ==
  /\ pc = "call"
  /\ fn = "transformVBind"
  /\ pc' = "done"
  /\ result' = Outcome(transformVBind(arg, code, scope))
  /\ UNCHANGED <<fn, arg, scope, code>>

CallTransformVOn ==
  /\ pc = "call"
  /\ fn = "transformVOn"
  /\ pc' = "done"
  /\ result' = Outcome(transformVOn(arg, code, scope))
  /\ UNCHANGED <<fn, arg, scope, code>>

CallTransformAttributes ==
  /\ pc = "call"
  /\ fn = "transformAttributes"
  /\ pc' = "done"
  /\ result' = Outcome(transformAttributes(arg, code, scope))
  /\ UNCHANGED <<fn, arg, scope, code>>

CallTransformElement ==
  /\ pc = "call"
  /\ fn = "transformElement"
  /\ pc' = "done"
  /\ result' = Outcome(transformElement(arg, code, scope))
  /\ UNCHANGED <<fn, arg, scope, code>>

CallTransformTemplate ==
  /\ pc = "call"
  /\ fn = "transformTemplate"
  /\ pc' = "done"
  /\ result' = OutcomeOfList(transformTemplate(arg, code))
  /\ UNCHANGED <<fn, arg, scope, code>>

CallDoValidation ==
  /\ pc = "call"
  /\ fn = "doValidation"
  /\ pc' = "done"
  /\ result' = Returned(doValidation(arg))
  /\ UNCHANGED <<fn, arg, scope, code>>

Next ==
  \/ CallInjectThis
  \/ CallParseExpression
  \/ CallTransformVBind
  \/ CallTransformVOn
  \/ CallTransformAttributes
  \/ CallTransformElement
  \/ CallTransformTemplate
  \/ CallDoValidation

Spec == Init /\ [][Next]_vars

----------------------------------------------------------------------------
(* Reading a synthetic expression *)

Done(f) == pc = "done" /\ fn = f /\ ~result.threw

helperNames ==
  {renderHelperName, componentHelperName, iterationHelperName, listenerHelperName}

\* the names the parameters of a function bind
Binders(parameters) == Range(Flatten(Map1(parameters.kids, collectScope)))

\* this.x made by the rewrite
IsThisAccess(n, x) ==
  /\ n.kind = "PropertyAccessExpression"
  /\ n.kids[1].kind = "ThisKeyword"
  /\ n.kids[2].text = x

RECURSIVE HasThisAccess(_, _)
HasThisAccess(n, x) ==
  IsThisAccess(n, x) \/ \E i \in 1..Len(n.kids) : HasThisAccess(n.kids[i], x)

RECURSIVE UnionOver(_, _, _)
RECURSIVE Unbound(_, _)
\* the identifiers that n uses as variables outside the names bound at their
\* site, when the names S are bound where n stands.  The name of a member
\* access, the key of a property, the name a declaration binds are no uses.
Unbound(n, S) ==
  CASE n.kind = "Identifier" -> IF n.text \in S THEN {} ELSE {n.text}
    [] n.kind = "PropertyAccessExpression" -> Unbound(n.kids[1], S)
    [] n.kind = "PropertyAssignment" ->
         (IF n.kids[1].kind = "ComputedPropertyName" THEN Unbound(n.kids[1], S) ELSE {})
         \cup Unbound(n.kids[2], S)
    [] n.kind = "ArrowFunction" ->
         Unbound(n.kids[1], S \cup Binders(n.kids[1]))
         \cup Unbound(n.kids[2], S \cup Binders(n.kids[1]))
    [] n.kind = "FunctionExpression" ->
         Unbound(n.kids[2], S \cup Binders(n.kids[1]) \cup {"arguments"})
    [] n.kind = "MethodDeclaration" ->
         Unbound(n.kids[3], S \cup Binders(n.kids[2]) \cup {"arguments"})
    [] n.kind \in {"Parameter", "BindingElement"} ->
         \* the default value is a use, the names are not
         (IF bindingName(n).kind = "Identifier" THEN {} ELSE Unbound(bindingName(n), S))
         \cup (IF n.text \in {"init", "prop-init"}
               THEN Unbound(n.kids[Len(n.kids)], S) ELSE {})
    [] OTHER -> UnionOver(n.kids, S, 1)
UnionOver(kids, S, i) ==
  IF i > Len(kids) THEN {} ELSE Unbound(kids[i], S) \cup UnionOver(kids, S, i + 1)

\* the same of a list of expressions
UnboundOfList(vs, S) == UNION {Unbound(vs[i], S) : i \in 1..Len(vs)}

TransformFns ==
  {"injectThis", "parseExpression", "transformVBind", "transformVOn",
   "transformAttributes", "transformElement"}

----------------------------------------------------------------------------
(* C1: scope soundness.  Every identifier the output of the transform uses  *)
(* as a variable is a reserved helper name or a name of the lexical scope   *)
(* at its site (the scope of the call, the parameters of the enclosing      *)
(* functions); a free identifier of the template is never left bare,        *)
(* whatever the kind of the expression around it.                           *)
C1_ScopeSoundness ==
  /\ \A f \in TransformFns :
       Done(f) => Unbound(result.value, Range(scope) \cup helperNames) = {}
  /\ Done("transformTemplate") =>
       UnboundOfList(result.value, Range(globalScope) \cup helperNames) = {}

\* the same of the kinds of expression injectThis has a branch for, default
\* values of parameters apart
C1_RewrittenKindsSound ==
  Done("parseExpression") /\ code[arg.range] \in Atoms \cup Rewritten
    => Unbound(result.value, Range(scope)) = {}

----------------------------------------------------------------------------
(* Reading the output of transformElement *)

IsHelperCall(out, helper, n) ==
  /\ out.kind = "CallExpression"
  /\ Len(out.kids) = n + 1
  /\ out.kids[1] = createIdentifier(helper)

\* the component helper call of the output of an element
ComponentCallOf(out) ==
  IF IsHelperCall(out, iterationHelperName, 2) THEN out.kids[3].kids[2] ELSE out

\* the output of the i-th child of the element whose output is out
ChildOutput(out, i) == ComponentCallOf(out).kids[4].kids[i]

LocalsOf(node) == {node.variables[i].id.name : i \in 1..Len(node.variables)}

ElementChildren(node) ==
  {i \in 1..Len(node.children) : node.children[i].type = "VElement"}

\* the elements among the children of the template root
TopElements ==
  IF arg.templateBody = null THEN {}
  ELSE {i \in 1..Len(arg.templateBody.children) :
          arg.templateBody.children[i].type = "VElement"}

----------------------------------------------------------------------------
(* C2: shadowing.  Inside an element that binds x (in its attribute data    *)
(* and in the expressions of all its descendants) no occurrence of x is     *)
(* rewritten to this.x; inside the body of a concise arrow function no      *)
(* occurrence of a parameter is rewritten.                                  *)

RECURSIVE ShadowedIn(_, _)
ShadowedIn(node, out) ==
  /\ \A x \in LocalsOf(node) : ~HasThisAccess(ComponentCallOf(out), x)
  /\ \A i \in ElementChildren(node) : ShadowedIn(node.children[i], ChildOutput(out, i))

RECURSIVE ArrowsShadow(_)
ArrowsShadow(n) ==
  /\ n.kind = "ArrowFunction" /\ n.kids[2].kind # "Block"
       => \A x \in Binders(n.kids[1]) : ~HasThisAccess(n.kids[2], x)
  /\ \A i \in 1..Len(n.kids) : ArrowsShadow(n.kids[i])

C2_Shadowing ==
  /\ Done("transformElement") => ShadowedIn(arg, result.value)
  /\ Done("transformTemplate") =>
       \A i \in TopElements : ShadowedIn(arg.templateBody.children[i], result.value[i])
  /\ \A f \in {"injectThis", "parseExpression"} : Done(f) => ArrowsShadow(result.value)

\* an element that binds x, called under a scope without x, with x used in
\* its attribute data and in an expression of an element below it, both
\* left bare
C2_Witness ==
  /\ Done("transformElement")
  /\ "x" \in LocalsOf(arg)
  /\ "x" \notin Range(scope)
  /\ "x" \in Unbound(ComponentCallOf(result.value).kids[3], {})
  /\ \E i \in ElementChildren(arg) :
       /\ LocalsOf(arg.children[i]) = {}
       /\ "x" \in Unbound(ChildOutput(result.value, i).kids[4], {})

----------------------------------------------------------------------------------------------------------------------------------------
(* C3: iteration emission.  When transformElement returns, it gives         *)
(* iterationHelper(source, (params) => E) exactly when the first for        *)
(* directive of the element has an expression, and the component helper     *)
(* call E otherwise, also when a later for directive has an expression;     *)
(* source is the right-hand side of that first directive, rewritten under   *)
(* the scope the element was reached with, so a binder named in the source  *)
(* becomes this.<name> unless that scope holds it.                          *)

\* the for directives of the element, by their place in the start tag
ForDirectives(node) ==
  {i \in 1..Len(node.startTag.attributes) :
     node.startTag.attributes[i].directive
     /\ node.startTag.attributes[i].key.name.name = "for"}

HasExpression(a) == a.value # null /\ a.value.expression # null

\* the element has a for directive with an expression
HasIteration(node) ==
  \E i \in ForDirectives(node) : HasExpression(node.startTag.attributes[i])

\* the first for directive of the element has an expression
FirstHasIteration(node) ==
  \E i \in ForDirectives(node) :
    /\ \A j \in ForDirectives(node) : i <= j
    /\ HasExpression(node.startTag.attributes[i])

\* the expression of the first for directive that has one
IterationOf(node) ==
  LET i == CHOOSE j \in ForDirectives(node) :
             /\ HasExpression(node.startTag.attributes[j])
             /\ \A k \in ForDirectives(node) :
                  HasExpression(node.startTag.attributes[k]) => j <= k
  IN node.startTag.attributes[i].value.expression

\* the source, when the text is one identifier
SourceUnder(right, source, S) ==
  LET t == code[right.range]
  IN t.kind = "Identifier" =>
       IF t.text \in S
       THEN source.kind = "Identifier" /\ source.text = t.text
       ELSE IsThisAccess(source, t.text)

\* the output of an element that iterates
IsIteration(node, out, S) ==
  /\ IsHelperCall(out, iterationHelperName, 2)
  /\ out.kids[3].kind = "ArrowFunction"
  /\ IsHelperCall(out.kids[3].kids[2], componentHelperName, 3)
  /\ SourceUnder(IterationOf(node).right, out.kids[2], S)

RECURSIVE IterationEmitted(_, _, _)
IterationEmitted(node, out, S) ==
  /\ IF HasIteration(node)
     THEN IsIteration(node, out, S)
     ELSE IsHelperCall(out, componentHelperName, 3)
  /\ \A i \in ElementChildren(node) :
       IterationEmitted(node.children[i], ChildOutput(out, i), S \cup LocalsOf(node))

RECURSIVE FirstIterationEmitted(_, _, _)
FirstIterationEmitted(node, out, S) ==
  /\ IF FirstHasIteration(node)
     THEN IsIteration(node, out, S)
     ELSE IsHelperCall(out, componentHelperName, 3)
  /\ \A i \in ElementChildren(node) :
       FirstIterationEmitted(node.children[i], ChildOutput(out, i),
                             S \cup LocalsOf(node))

\* C3 as first stated: the iteration helper call exactly when the element
\* has a for directive with an expression, be it the first one or not
C3_IterationEmission ==
  /\ Done("transformElement") => IterationEmitted(arg, result.value, Range(scope))
  /\ Done("transformTemplate") =>
       \A i \in TopElements :
         IterationEmitted(arg.templateBody.children[i], result.value[i],
                          Range(globalScope))

\* C3: the iteration helper call exactly when the first for directive of
\* the element has an expression, with the source of that directive
\* rewritten under the scope the element was reached with
C3_FirstIterationEmission ==
  /\ Done("transformElement") =>
       FirstIterationEmitted(arg, result.value, Range(scope))
  /\ Done("transformTemplate") =>
       \A i \in TopElements :
         FirstIterationEmitted(arg.templateBody.children[i], result.value[i],
                               Range(globalScope))

\* the attributes of the element hold the for directives at 1 and 2
TwoIterations(node) ==
  /\ Len(node.startTag.attributes) = 2
  /\ ForDirectives(node) = {1, 2}

\* a template of two elements with two for directives each.  One has
\* v-for="x in x" before v-for="i in a": the iteration helper call with the
\* source this.x.  The other has a for directive without a value before
\* v-for="x in a": the component helper call, although x is bound inside
C3_Witness ==
  /\ Done("transformTemplate")
  /\ \E i \in TopElements :
       LET node == arg.templateBody.children[i]
       IN /\ TwoIterations(node)
          /\ HasExpression(node.startTag.attributes[1])
          /\ HasExpression(node.startTag.attributes[2])
          /\ code[node.startTag.attributes[1].value.expression.right.range] = Id("x")
          /\ code[node.startTag.attributes[2].value.expression.right.range] = Id("a")
          /\ IsHelperCall(result.value[i], iterationHelperName, 2)
          /\ IsThisAccess(result.value[i].kids[2], "x")
  /\ \E i \in TopElements :
       LET node == arg.templateBody.children[i]
       IN /\ TwoIterations(node)
          /\ ~HasExpression(node.startTag.attributes[1])
          /\ HasExpression(node.startTag.attributes[2])
          /\ "x" \in LocalsOf(node)
          /\ IsHelperCall(result.value[i], componentHelperName, 3)

----------------
(* C4: attribute data.  For every attribute list, the empty list and the    *)
(* lists of skipped attributes included, transformAttributes returns an     *)
(* object literal with exactly the three properties props, on, directives,  *)
(* in this order; props and on are object literals, directives is an array  *)
(* literal.  The same holds of the attribute data of every element.         *)

IsProperty(p, name, kind) ==
  /\ p.kind = "PropertyAssignment"
  /\ p.kids[1] = createIdentifier(name)
  /\ p.kids[2].kind = kind

IsAttributeData(out) ==
  /\ out.kind = "ObjectLiteralExpression"
  /\ Len(out.kids) = 3
  /\ IsProperty(out.kids[1], "props", "ObjectLiteralExpression")
  /\ IsProperty(out.kids[2], "on", "ObjectLiteralExpression")
  /\ IsProperty(out.kids[3], "directives", "ArrayLiteralExpression")

RECURSIVE AttributeDataBelow(_, _)
AttributeDataBelow(node, out) ==
  /\ IsAttributeData(ComponentCallOf(out).kids[3])
  /\ \A i \in ElementChildren(node) :
       AttributeDataBelow(node.children[i], ChildOutput(out, i))

C4_AttributeDataShape ==
  /\ Done("transformAttributes") => IsAttributeData(result.value)
  /\ Done("transformElement") => AttributeDataBelow(arg, result.value)

isSkipped(attr) ==
  attr.directive /\ attr.key.name.name \in {"for", "slot", "slot-scope"}

\* a list of nothing but skipped attributes, with values: the three
\* properties are there and empty
C4_Witness ==
  /\ Done("transformAttributes")
  /\ Len(arg) = 2
  /\ \A i \in 1..Len(arg) : isSkipped(arg[i]) /\ arg[i].value # null
  /\ IsAttributeData(result.value)
  /\ \A i \in 1..3 : result.value.kids[i].kids[2].kids = <<>>

----------------------------------------------------------------------------
(* C5: a directive named for, slot or slot-scope adds no entry to props,    *)
(* on or directives.  The attribute data of a list is the attribute data    *)
(* of the list without these directives; the component helper call of an    *)
(* element is that of the element without them, so a for directive is seen  *)
(* in the iteration helper call around it and nowhere else.                 *)

Kept(attrs) == SelectSeq(attrs, LAMBDA a : ~isSkipped(a))

WithoutSkipped(node) == [node EXCEPT !.startTag.attributes = Kept(@)]

C5_SkippedDirectivesAddNothing ==
  /\ Done("transformAttributes") =>
       result.value = transformAttributes(Kept(arg), code, scope)
  /\ Done("transformElement") =>
       ComponentCallOf(result.value) = transformElement(WithoutSkipped(arg), code, scope)

\* a list with a skipped directive that has a value and an attribute that is
\* kept: the data holds the one entry of the latter
C5_Witness ==
  /\ Done("transformAttributes")
  /\ \E i \in 1..Len(arg) : isSkipped(arg[i]) /\ arg[i].value # null
  /\ Len(Kept(arg)) = 1
  /\ Len(result.value.kids[1].kids[2].kids) + Len(result.value.kids[2].kids[2].kids)
       + Len(result.value.kids[3].kids[2].kids) = 1

----------------------------------------------------------------------------
(* C6: the argument of a bind or on directive.  No argument: a spread       *)
(* assignment of the value expression.  A static argument: a property       *)
(* assignment with the string literal of the name as key and the value      *)
(* expression as value.  A dynamic argument: a property assignment with     *)
(* the computed key [k], k rewritten under the scope of the call (not the   *)
(* scope of a handler body).  A dynamic argument without key expression:    *)
(* the spread of an empty object literal.                                   *)

\* the expression e as the operand of an assignment or a spread: a comma
\* expression is put in parentheses, which keep it one operand
AsOperand(e) ==
  IF e.kind = "BinaryExpression" /\ e.text = ","
  THEN [kind |-> "ParenthesizedExpression", text |-> "", kids |-> <<e>>,
        pos |-> e.pos, end |-> e.end, lead |-> 0, smr |-> <<>>]
  ELSE e

\* the value expression of a bind directive
BindValue(dir) ==
  IF dir.value # null /\ dir.value.expression # null
  THEN parseExpression(dir.value.expression, code, scope)
  ELSE createTrue

ArgumentRule(dir, out) ==
  CASE dir.key.argument = null -> out.kind = "SpreadAssignment" /\ Len(out.kids) = 1
    [] dir.key.argument # null /\ dir.key.argument.type = "VIdentifier" ->
         /\ out.kind = "PropertyAssignment"
         /\ out.kids[1] = createStringLiteral(dir.key.argument.name)
    [] dir.key.argument # null /\ dir.key.argument.type # "VIdentifier"
       /\ dir.key.argument.expression = null ->
         out = createSpreadAssignment(createObjectLiteral(<<>>))
    [] OTHER ->
         /\ out.kind = "PropertyAssignment"
         /\ out.kids[1].kind = "ComputedPropertyName"
         /\ out.kids[1].kids[1]
              = AsOperand(parseExpression(dir.key.argument.expression, code, scope))
         /\ SourceUnder(dir.key.argument.expression, out.kids[1].kids[1], Range(scope))

hasNoKey(dir) ==
  /\ dir.key.argument # null
  /\ dir.key.argument.type # "VIdentifier"
  /\ dir.key.argument.expression = null

C6_ArgumentRules ==
  /\ Done("transformVBind") =>
       /\ ArgumentRule(arg, result.value)
       /\ ~hasNoKey(arg) =>
            result.value.kids[Len(result.value.kids)] = AsOperand(BindValue(arg))
  /\ Done("transformVOn") => ArgumentRule(arg, result.value)

\* v-on:[$event]="$event" with a statement body, under a scope without
\* $event: the key is this.$event, the $event of the body is left bare
C6_Witness ==
  /\ Done("transformVOn")
  /\ "$event" \notin Range(scope)
  /\ result.value.kind = "PropertyAssignment"
  /\ result.value.kids[1].kind = "ComputedPropertyName"
  /\ IsThisAccess(result.value.kids[1].kids[1], "$event")
  /\ IsHelperCall(result.value.kids[2], listenerHelperName, 2)
  /\ ~HasThisAccess(result.value.kids[2], "$event")

----------------------------------------------------------------------------
(* C7: the handler of an on directive.  Without a value it is the literal   *)
(* true.  A value that is one expression (no statement body) gives that     *)
(* expression rewritten under the scope of the call, without the listener   *)
(* helper.  A statement body gives                                          *)
(* listenerHelper(this, function ($event: Event) { ... }) with one          *)
(* statement for each statement of the body, in order, rewritten under the  *)
(* scope extended with $event and arguments (a statement that is no         *)
(* expression statement gives the statement of an empty string literal).    *)

HandlerOf(out) == IF out.kind = "SpreadAssignment" THEN out.kids[1] ELSE out.kids[2]

\* the statement of the handler for the statement st of the body
HandlerStatement(st, S) ==
  IF st.type = "ExpressionStatement"
  THEN createStatement(parseExpression(st.expression, code, S))
  ELSE createStatement(createStringLiteral(""))

\* what the rewrite leaves of a statement that is one identifier
StatementUnder(st, out, S) ==
  st.type = "ExpressionStatement" =>
    /\ out.kind = "ExpressionStatement"
    /\ SourceUnder(st.expression, out.kids[1], S)

HandlerRule(dir, h) ==
  CASE dir.value = null -> h = createTrue
    [] dir.value # null /\ dir.value.expression = null -> h = createTrue
    [] dir.value # null /\ dir.value.expression # null
       /\ dir.value.expression.type # "VOnExpression" ->
         /\ h = AsOperand(parseExpression(dir.value.expression, code, scope))
         /\ SourceUnder(dir.value.expression, h, Range(scope))
         /\ ~IsHelperCall(h, listenerHelperName, 2)
    [] OTHER ->
         /\ IsHelperCall(h, listenerHelperName, 2)
         /\ h.kids[2] = createThis
         /\ h.kids[3].kind = "FunctionExpression"
         /\ h.kids[3].kids[1] = createNodeArray(<<createParameter("$event", "Event")>>)
         /\ h.kids[3].kids[2].kind = "Block"
         /\ Len(h.kids[3].kids[2].kids) = Len(dir.value.expression.body)
         /\ \A i \in 1..Len(dir.value.expression.body) :
              /\ h.kids[3].kids[2].kids[i]
                   = HandlerStatement(dir.value.expression.body[i], scope \o vOnScope)
              /\ StatementUnder(dir.value.expression.body[i], h.kids[3].kids[2].kids[i],
                                Range(scope) \cup {"$event", "arguments"})

C7_EventHandlerValue ==
  Done("transformVOn") /\ ~hasNoKey(arg) => HandlerRule(arg, HandlerOf(result.value))

\* @click with the body "x; $event", under a scope without x and $event:
\* the handler has the statements this.x and $event, in this order
C7_Witness ==
  /\ Done("transformVOn")
  /\ "x" \notin Range(scope)
  /\ "$event" \notin Range(scope)
  /\ arg.key.argument # null
  /\ arg.key.argument.type = "VIdentifier"
  /\ arg.value # null
  /\ arg.value.expression # null
  /\ arg.value.expression.type = "VOnExpression"
  /\ Len(arg.value.expression.body) = 2
  /\ IsHelperCall(HandlerOf(result.value), listenerHelperName, 2)
  /\ IsThisAccess(HandlerOf(result.value).kids[3].kids[2].kids[1].kids[1], "x")
  /\ HandlerOf(result.value).kids[3].kids[2].kids[2].kids[1].kind = "Identifier"
  /\ HandlerOf(result.value).kids[3].kids[2].kids[2].kids[1].text = "$event"

----------------------------------------------------------------------------
(* C8: no diagnostic is dropped.  For the raw semantic diagnostics of the   *)
(* template, doValidation returns a list of the same length and order; the  *)
(* i-th diagnostic has the severity Error, the code of the i-th raw         *)
(* diagnostic, its message flattened with newlines, and the source Vetur,   *)
(* also when its range is the sentinel (no entry of the source map holds    *)
(* the span).                                                               *)

\* the messages of a chain, outermost first
RECURSIVE ChainTexts(_)
ChainTexts(m) ==
  IF m = null THEN <<>>
  ELSE IF m.kind = "string" THEN <<m.text>>
  ELSE <<m.messageText>> \o ChainTexts(m.next)

RECURSIVE Concat(_)
Concat(ss) == IF ss = <<>> THEN <<>> ELSE Head(ss) \o Concat(Tail(ss))

IsLayout(piece) == piece \in {"\n", "  "}

\* message is the messages of the chain, each on a line of its own
IsFlattened(message, m) ==
  /\ SelectSeq(message, LAMBDA piece : ~IsLayout(piece)) = Concat(ChainTexts(m))
  /\ Len(SelectSeq(message, LAMBDA piece : piece = "\n")) = Len(ChainTexts(m)) - 1

IsMapped(out, diag) ==
  /\ out.severity = DiagnosticSeverityError
  /\ out.code = diag.code
  /\ IsFlattened(out.message, diag.messageText)
  /\ out.source = "Vetur"

C8_NoDiagnosticDropped ==
  Done("doValidation") /\ arg.includesFile =>
    /\ Len(result.value) = Len(arg.semanticDiagnostics)
    /\ \A i \in 1..Len(result.value) :
         IsMapped(result.value[i], arg.semanticDiagnostics[i])

\* two diagnostics, the first (a warning with a chain of messages) with no
\* entry of the source map for it, the second with one
C8_Witness ==
  /\ Done("doValidation")
  /\ arg.includesFile
  /\ Len(arg.semanticDiagnostics) = 2
  /\ arg.semanticDiagnostics[1].messageText.kind = "chain"
  /\ arg.semanticDiagnostics[1].category # 1
  /\ Len(result.value) = 2
  /\ result.value[1].range = SentinelRange
  /\ result.value[2].range # SentinelRange

----------------------------------------------------------------------------
(* C9: range stamping.  The expression parseExpression returns for a        *)
(* script expression with the range [start, end) has the source-map range   *)
(* [start, end), the range of the text without the parentheses added,       *)
(* unless it is an object literal; an object literal has none.              *)
C9_RangeStamping ==
  Done("parseExpression") =>
    IF result.value.kind # "ObjectLiteralExpression"
    THEN result.value.smr = arg.range
    ELSE result.value.smr = <<>>

\* a.x at [40, 43): the property access this.a.x with that range
C9_Witness ==
  /\ Done("parseExpression")
  /\ arg.range[1] = 40
  /\ arg.range[2] > 41
  /\ result.value.kind = "PropertyAccessExpression"
  /\ HasThisAccess(result.value, "a")
  /\ result.value.smr = arg.range

----------------------------------------------------------------------------
(* C10: no failure path raises.  No call ends with an exception; a          *)
(* statement of a handler body that is not an expression statement becomes  *)
(* the statement of the empty string literal; transformTemplate returns one *)
(* expression for each child of the template root, also when a v-for        *)
(* directive reaches parseParams.  (The text parseExpressionImpl parses is  *)
(* in parentheses and its first statement an expression statement, so the   *)
(* branch for another first statement is taken for no input.)               *)

ChildrenOf(program) ==
  IF program.templateBody = null THEN <<>> ELSE program.templateBody.children

\* the statements of a handler body that are no expression statements are
\* statements of the empty string literal in the handler made for it
NeutralStatements(dir, h) ==
  dir.value # null /\ dir.value.expression # null
  /\ dir.value.expression.type = "VOnExpression" =>
    \A i \in 1..Len(dir.value.expression.body) :
      dir.value.expression.body[i].type # "ExpressionStatement" =>
        h.kids[3].kids[2].kids[i] = createStatement(createStringLiteral(""))

C10_NoFailurePathRaises ==
  /\ pc = "done" => ~result.threw
  /\ Done("transformVOn") /\ ~hasNoKey(arg) =>
       NeutralStatements(arg, HandlerOf(result.value))
  /\ Done("transformTemplate") => Len(result.value) = Len(ChildrenOf(arg))

\* the failure path that does not raise: a statement that is no expression
\* statement gives the statement of the empty string literal
C10_ReturnsWhereItCan ==
  /\ pc = "done" /\ fn = "transformVOn" /\ ~result.threw /\ ~hasNoKey(arg) =>
       NeutralStatements(arg, HandlerOf(result.value))
  /\ Done("transformTemplate") => Len(result.value) = Len(ChildrenOf(arg))

----------------------------------------------------------------------------
(* C11: plain attributes.  A plain attribute named neither class nor style  *)
(* adds exactly one entry to props: the string literal of its name as key,  *)
(* the string literal of its value, or true without a value.  A plain       *)
(* attribute named class or style adds nothing anywhere.  The output for    *)
(* attributes that are all plain has no entry in on and directives and no   *)
(* access to this; so has a template of elements with plain attributes and  *)
(* text only.                                                               *)

isStatic(attr) == ~attr.directive /\ attr.key.name \in {"class", "style"}

\* the attributes that add to props: the plain ones and the bind directives
AddsToProps(attrs) ==
  SelectSeq(attrs, LAMBDA a : IF a.directive THEN a.key.name.name = "bind"
                              ELSE ~isStatic(a))

PlainEntry(attr, p) ==
  /\ p.kind = "PropertyAssignment"
  /\ p.kids[1].kind = "StringLiteral"
  /\ p.kids[1].text = attr.key.name
  /\ IF attr.value = null
     THEN p.kids[2].kind = "TrueKeyword"
     ELSE p.kids[2].kind = "StringLiteral" /\ p.kids[2].text = attr.value.value

RECURSIVE HasThis(_)
HasThis(n) == n.kind = "ThisKeyword" \/ \E i \in 1..Len(n.kids) : HasThis(n.kids[i])

PlainAttributes(attrs, out) ==
  /\ Len(out.kids[1].kids[2].kids) = Len(AddsToProps(attrs))
  /\ \A i \in 1..Len(AddsToProps(attrs)) :
       ~AddsToProps(attrs)[i].directive =>
         PlainEntry(AddsToProps(attrs)[i], out.kids[1].kids[2].kids[i])
  /\ (\A i \in 1..Len(attrs) : ~attrs[i].directive) =>
       /\ out.kids[2].kids[2].kids = <<>>
       /\ out.kids[3].kids[2].kids = <<>>
       /\ ~HasThis(out)

\* an element of the template root with plain attributes and text only
IsPlainElement(child) ==
  /\ child.type = "VElement"
  /\ \A i \in 1..Len(child.startTag.attributes) : ~child.startTag.attributes[i].directive
  /\ \A i \in 1..Len(child.children) : child.children[i].type = "VText"

C11_PlainAttributes ==
  /\ Done("transformAttributes") =>
       /\ PlainAttributes(arg, result.value)
       /\ result.value
            = transformAttributes(SelectSeq(arg, LAMBDA a : ~isStatic(a)), code, scope)
  /\ Done("transformTemplate") =>
       \A i \in TopElements :
         IsPlainElement(arg.templateBody.children[i]) =>
           /\ ~HasThis(result.value[i])
           /\ PlainAttributes(arg.templateBody.children[i].startTag.attributes,
                              result.value[i].kids[3])

\* class="c" and disabled: the one entry "disabled": true in props
C11_Witness ==
  /\ Done("transformAttributes")
  /\ Len(arg) = 2
  /\ isStatic(arg[1])
  /\ ~arg[2].directive /\ arg[2].value = null
  /\ Len(result.value.kids[1].kids[2].kids) = 1
  /\ result.value.kids[1].kids[2].kids[1].kids[1] = createStringLiteral(arg[2].key.name)
  /\ result.value.kids[1].kids[2].kids[1].kids[2] = createTrue

----------------------------------------------------------------------------
(* C12: position hygiene.  After injectThis has returned, every node of     *)
(* the result has the position (-1, -1): the nodes made by the rewrite are  *)
(* synthesized, and the nodes taken over from the parser (identifiers in    *)
(* scope, names of member accesses, parameters of arrow functions,          *)
(* literals inside rewritten expressions) have had their position reset.    *)
(* No node keeps a position of the text in parentheses.                     *)

RECURSIVE IsSynthetic(_)
IsSynthetic(n) ==
  /\ n.pos = -1
  /\ n.end = -1
  /\ \A i \in 1..Len(n.kids) : IsSynthetic(n.kids[i])

C12_PositionHygiene ==
  \A f \in {"injectThis", "parseExpression"} : Done(f) => IsSynthetic(result.value)

\* what the last branch of injectThis does reset: the node it is given, when
\* this is a node without children (a literal, this)
C12_LeavesOfOtherKindsReset ==
  Done("injectThis") /\ ~isRewritten(arg.exp) /\ arg.exp.kids = <<>> =>
    IsSynthetic(result.value)

----------------------------------------------------------------------------
(* C13: binders of a concise arrow function.  injectThis rewrites the body  *)
(* of (p...) => expr under the scope of the call extended with exactly the  *)
(* names the parameter patterns bind: an identifier x binds x; an object    *)
(* pattern binds what its elements bind, where b: c binds c and not b and   *)
(* ...r binds r; an array pattern binds what its elements that are no       *)
(* holes bind; a default value changes nothing.  The parameter              *)
(* declarations are carried over as they are.                               *)

RECURSIVE PatternBinders(_)
\* the names a parameter or an element of a pattern binds
PatternBinders(p) ==
  CASE p.kind = "OmittedExpression" -> {}
    [] p.kind \in {"Parameter", "BindingElement"} ->
         PatternBinders(IF p.text \in {"prop", "prop-init"} THEN p.kids[2] ELSE p.kids[1])
    [] p.kind = "Identifier" -> {p.text}
    [] p.kind \in {"ObjectBindingPattern", "ArrayBindingPattern"} ->
         UNION {PatternBinders(p.kids[i]) : i \in 1..Len(p.kids)}
    [] OTHER -> {}

ParameterBinders(parameters) ==
  UNION {PatternBinders(parameters.kids[i]) : i \in 1..Len(parameters.kids)}

\* the names of S in some order
SeqOf(S) == CHOOSE q \in [1..Cardinality(S) -> S] : Range(q) = S

isConciseArrow(exp) == exp.kind = "ArrowFunction" /\ exp.kids[2].kind # "Block"

C13_ConciseArrowBinders ==
  Done("injectThis") /\ isConciseArrow(arg.exp) =>
    /\ result.value.kind = "ArrowFunction"
    /\ result.value.kids[1] = arg.exp.kids[1]
    /\ result.value.kids[2]
         = injectThis(arg.exp.kids[2],
                      scope \o SeqOf(ParameterBinders(arg.exp.kids[1])), arg.start)
    /\ \A x \in ParameterBinders(arg.exp.kids[1]) : ~HasThisAccess(result.value.kids[2], x)

\* ({a, b: x, ...r}) => [a, x, b, r] under a scope without x and b: the body
\* is [a, x, this.b, r]
C13_Witness ==
  /\ Done("injectThis")
  /\ isConciseArrow(arg.exp)
  /\ "x" \notin Range(scope)
  /\ ParameterBinders(arg.exp.kids[1]) = {"a", "x", "r"}
  /\ result.value.kids[2].kind = "ArrayLiteralExpression"
  /\ result.value.kids[2].kids[1].kind = "Identifier"
  /\ result.value.kids[2].kids[2].kind = "Identifier"
  /\ IsThisAccess(result.value.kids[2].kids[3], "b")
  /\ result.value.kids[2].kids[4].kind = "Identifier"

----------------------------------------------------------------------------
(* C14: scope bindings do not leak.  The scope a function is called with    *)
(* is extended by copy, so (a) the locals of an element are not in scope    *)
(* for the children after it and for its parent, (b) the parameters of an   *)
(* arrow function are not in scope outside its body, (c) $event and         *)
(* arguments are in scope for the statements of a handler body only: the    *)
(* dynamic argument of the same on directive and the other attributes and   *)
(* children are rewritten under the scope without them, so $event there     *)
(* becomes this.$event.                                                     *)

\* the expressions of the children of node that are no elements, and of the
\* elements below, each under the scope at its place
RECURSIVE LeavesUnder(_, _, _)
LeavesUnder(node, out, S) ==
  \A i \in 1..Len(node.children) :
    CASE node.children[i].type = "VElement" ->
           LeavesUnder(node.children[i], ChildOutput(out, i), S \cup LocalsOf(node))
      [] node.children[i].type = "VExpressionContainer" ->
           node.children[i].expression # null =>
             SourceUnder(node.children[i].expression, ChildOutput(out, i),
                         S \cup LocalsOf(node))
      [] OTHER -> TRUE

\* a child of the template root under the global scope
TopChildUnder(child, out) ==
  CASE child.type = "VElement" -> LeavesUnder(child, out, Range(globalScope))
    [] child.type = "VExpressionContainer" ->
         child.expression # null => SourceUnder(child.expression, out, Range(globalScope))
    [] OTHER -> TRUE

\* the operands of an expression, each rewritten under the scope of the call
OperandsUnderScope(exp, out) ==
  exp.kind \in {"CallExpression", "ArrayLiteralExpression", "BinaryExpression"} =>
    /\ Len(out.kids) = Len(exp.kids)
    /\ \A i \in 1..Len(exp.kids) : out.kids[i] = injectThis(exp.kids[i], scope, arg.start)

C14_ScopeBindingsDoNotLeak ==
  /\ Done("transformTemplate") =>
       \A i \in 1..Len(ChildrenOf(arg)) :
         /\ result.value[i] = transformChild(ChildrenOf(arg)[i], code, globalScope)
         /\ TopChildUnder(ChildrenOf(arg)[i], result.value[i])
  /\ Done("transformElement") => LeavesUnder(arg, result.value, Range(scope))
  /\ Done("injectThis") => OperandsUnderScope(arg.exp, result.value)
  /\ \A f \in {"transformVOn", "transformAttributes"} :
       Done(f) => \A n \in Range(vOnScope) \ Range(scope) : n \notin Unbound(result.value, {})

\* an element with v-for that binds x and holds the expression x, left
\* bare, and after the element the expression x again: this.x
C14_Witness ==
  /\ Done("transformTemplate")
  /\ Len(ChildrenOf(arg)) = 2
  /\ ChildrenOf(arg)[1].type = "VElement"
  /\ "x" \in LocalsOf(ChildrenOf(arg)[1])
  /\ Len(ChildrenOf(arg)[1].children) = 1
  /\ ChildOutput(result.value[1], 1).kind = "Identifier"
  /\ ChildOutput(result.value[1], 1).text = "x"
  /\ ChildrenOf(arg)[2].type = "VExpressionContainer"
  /\ IsThisAccess(result.value[2], "x")

====
